---- MODULE Spec2Model ----
(***************************************************************************)
(* A model of the aten reactor (Disk), its timers and events, and of the   *)
(* byte streams layered on it.  Every operation of the source is a pure    *)
(* operator on a "world" record W (the values of all variables plus the    *)
(* RefCell borrows outstanding while the operation runs); an action        *)
(* applies one operation and commits the resulting world.                  *)
(***************************************************************************)
EXTENDS Integers, Sequences, FiniteSets, TLC

VARIABLES
    now,        \* the monotonic clock (CLOCK_MONOTONIC), in ticks
    uidCtr,     \* number of UIDs handed out so far; UID::new() returns uidCtr + 1
    disk,       \* the DiskBody
    events,     \* the EventBody of every Event made so far, by UID
    streams,    \* the body of every byte stream made so far, by UID
    loop,       \* position of main_loop / do_loop, and its locals
    panic,      \* "none", or the panic that ended the program
    fired,      \* history: UIDs of the timers whose action has been invoked
    canceled,   \* history: UIDs of the timers cancel() was called on before they fired
    last        \* history: the operation of the last step, its argument, and
                \* the timer it fired or canceled

vars == <<now, uidCtr, disk, events, streams, loop, panic, fired, canceled, last>>

-----------------------------------------------------------------------------
(* Bounds of the model *)

MaxUid == 5         \* UIDs handed out in a run of Spec
MaxTime == 2        \* the clock runs from 0 to MaxTime
MaxLive == 3        \* timers queued at once (immediate FIFO plus timer map)
MaxLoopUid == 23    \* UIDs handed out in a run of SpecLoop
MaxStreams == 3     \* streams the application builds
MaxStreamUid == 7   \* UIDs handed out before SpecStream stops building and reading
MaxRead == 2        \* length of the caller's buffer
MaxBurst == 2       \* max_burst of the nice and pacer streams
MinBurst == 1       \* min_burst of the pacer streams
Capacity == 1       \* capacity of the reservoir streams
MaxCallbackUid == 9 \* UIDs handed out before SpecCallback stops registering callbacks
MaxBlobLen == 2     \* length of the blobs A and B of SpecQueue
MaxSubLen == 3      \* length of the blob under the sub stream of SpecSub
MaxCodecLen == 3    \* length of the byte sequence B of SpecCodec
MaxRate == 2        \* byterate of the pacer of SpecPacer, in bytes per tick
MaxPacerUid == 8    \* UIDs handed out before SpecPacer stops reading
MaxLingerBuf == 2   \* length of the buffer of the Linger (BUF_SIZE)
MaxWrite == 2       \* bytes one write to the Linger's descriptor takes
MaxScript == 2      \* writes the descriptor answers before it returns EAGAIN
MaxLingerUid == 12  \* UIDs handed out before SpecLinger stops prodding
MaxWrapLen == 2     \* bytes the socket of SpecWrap holds
MaxWrapUid == 8     \* UIDs handed out before SpecWrap stops reading
MaxTakes == 3       \* calls of take() on one connection progress
MaxPolls == 3       \* calls of poll() on one Resolver
MaxEgress == 2      \* calls of set_egress() on one Duplex
MaxOwed == 2        \* retries of a nice stream queued at a time
MaxCtlUid == 4      \* UIDs handed out in a run of SpecCtl
TicksPerMs == 2     \* ticks of the clock of SpecTimeout in a millisecond
MsMax == 2          \* the largest timeout the poller of SpecTimeout is handed
MaxExpiry == 6      \* the latest expiry scheduled in SpecTimeout
MaxFineTimers == 2  \* timers scheduled in SpecTimeout
Blobs == {<<2>>, <<1, 0, 2>>}


(* Program constants *)

MAX_IO_STARVATION == 20
MAX_IO_BURST == 20
I32_MAX == 2147483647

-----------------------------------------------------------------------------
(* Values *)

None == [tag |-> "none"]
Some(x) == [tag |-> "some", val |-> x]

UserAction == [tag |-> "user"]
PerfAction(e) == [tag |-> "perf", ev |-> e]

Times == 0..MaxTime

Min(a, b) == IF a < b THEN a ELSE b

(* The world an operation runs in.  diskRefs and evRefs are the shared     *)
(* RefCell borrows (Ref values) alive at this point of the operation,      *)
(* calls counts the ByteStream::read calls it has made, invoked lists the  *)
(* stream callbacks of the application it has called, ret is what it       *)
(* returns.                                                                 *)
World ==
    [now |-> now, uidCtr |-> uidCtr, disk |-> disk, events |-> events,
     streams |-> streams, panic |-> panic, fired |-> fired, canceled |-> canceled,
     diskRefs |-> 0, evRefs |-> {}, calls |-> 0, invoked |-> <<>>, ret |-> None]

Commit(w) ==
    /\ now' = w.now
    /\ uidCtr' = w.uidCtr
    /\ disk' = w.disk
    /\ events' = w.events
    /\ streams' = w.streams
    /\ panic' = w.panic
    /\ fired' = w.fired
    /\ canceled' = w.canceled

Panic(w, what) == IF w.panic = "none" THEN [w EXCEPT !.panic = what] ELSE w

(* f applied to w unless w has already panicked (the stack is unwinding) *)
Then(w, f(_)) == IF w.panic = "none" THEN f(w) ELSE w

-----------------------------------------------------------------------------
(* RefCell borrows *)

DiskBorrowMut(w) ==
    IF w.diskRefs > 0 THEN Panic(w, "BorrowMutError") ELSE w

-----------------------------------------------------------------------------
(* Timers *)

KeyLessUidFirst(a, b) ==
    \/ a.uid < b.uid
    \/ a.uid = b.uid /\ a.expires < b.expires

KeyLess(a, b) ==
    \/ a.expires < b.expires
    \/ a.expires = b.expires /\ a.uid < b.uid

First(ts) == CHOOSE t \in ts : \A o \in ts : o = t \/ KeyLess(t, o)

Uids(bodies) == {b.uid : b \in bodies}
Entry(body) == [uid |-> body.uid, expires |-> body.expires, kind |-> body.kind]
NoEntry == [uid |-> 0, expires |-> 0, kind |-> "none"]
Did(op, arg) == [op |-> op, arg |-> arg, body |-> NoEntry]
ImmediateBodies(d) == {d.immediate[i] : i \in DOMAIN d.immediate}
LiveUids(d) == Uids(ImmediateBodies(d)) \cup Uids(d.timers)

wake_up(w) ==
    IF w.disk.wakeup_fd THEN [w EXCEPT !.disk.pipe = 1] ELSE w

new_timer(w, uid, kind, expires, action) ==
    [w |-> wake_up(w),
     body |-> [uid |-> uid, expires |-> expires, kind |-> kind,
               action |-> Some(action)]]

executePushFront(w, action) ==
    LET stamp == w.disk.recent
        uid == w.uidCtr + 1
        nt == new_timer([w EXCEPT !.uidCtr = uid], uid, "Pending", stamp, action)
    IN  [nt.w EXCEPT !.disk.immediate = <<nt.body>> \o @,
                     !.ret = Some(uid)]

execute(w, action) ==
    LET stamp == w.disk.recent
        uid == w.uidCtr + 1
        nt == new_timer([w EXCEPT !.uidCtr = uid], uid, "Pending", stamp, action)
        w1 == DiskBorrowMut(nt.w)
    IN  IF w1.panic # "none" THEN w1
        ELSE [w1 EXCEPT !.disk.immediate = Append(@, nt.body),
                        !.ret = Some(uid)]

schedule(w, expires, action) ==
    LET uid == w.uidCtr + 1
        nt == new_timer([w EXCEPT !.uidCtr = uid], uid, "Scheduled", expires, action)
        w1 == DiskBorrowMut(nt.w)
    IN  IF w1.panic # "none" THEN w1
        ELSE [w1 EXCEPT !.disk.timers = @ \cup {nt.body},
                        !.ret = Some(uid)]

cancelKeepsInMap(w, uid) ==
    [w EXCEPT !.disk.immediate =
                 [i \in DOMAIN @ |->
                     IF @[i].uid = uid THEN [@[i] EXCEPT !.kind = "Canceled"] ELSE @[i]],
              !.disk.timers =
                 {IF t.uid = uid THEN [t EXCEPT !.kind = "Canceled"] ELSE t : t \in @}]

cancelScheduledOnly(w, uid) ==
    [w EXCEPT !.disk.timers = {t \in @ : t.uid # uid}]

cancel(w, uid) ==
    IF uid \notin LiveUids(w.disk) THEN w
    ELSE IF uid \in Uids(w.disk.timers)
    THEN LET w1 == DiskBorrowMut(w)
         IN  IF w1.panic # "none" THEN w1
             ELSE [w1 EXCEPT !.disk.timers = {t \in @ : t.uid # uid}]
    ELSE [w EXCEPT !.disk.immediate =
                     [i \in DOMAIN @ |->
                         IF @[i].uid = uid THEN [@[i] EXCEPT !.kind = "Canceled"]
                         ELSE @[i]]]

disk_now(w) == [w EXCEPT !.disk.recent = w.now]

next_stepIgnoresClock(w) ==
    LET w1 == disk_now(w)
        d == w1.disk
    IN  IF d.timers # {}
        THEN LET first == First(d.timers)
             IN  IF d.immediate # <<>> /\ ~KeyLess(first, Head(d.immediate))
                 THEN [w |-> w1, step |-> "ImmediateAction", timer |-> first]
                 ELSE [w |-> w1, step |-> "TimerExpired", timer |-> first]
        ELSE IF d.immediate = <<>>
             THEN [w |-> w1, step |-> "InfiniteWait", timer |-> None]
             ELSE [w |-> w1, step |-> "ImmediateAction", timer |-> None]

next_step(w) ==
    LET w1 == disk_now(w)
        d == w1.disk
    IN  IF d.timers # {}
        THEN LET first == First(d.timers)
             IN  IF d.immediate # <<>>
                 THEN IF KeyLess(first, Head(d.immediate))
                      THEN [w |-> w1, step |-> "TimerExpired", timer |-> first]
                      ELSE [w |-> w1, step |-> "ImmediateAction", timer |-> first]
                 ELSE IF first.expires <= w1.now
                      THEN [w |-> w1, step |-> "TimerExpired", timer |-> first]
                      ELSE [w |-> w1, step |-> "NextTimerExpiry", timer |-> first]
        ELSE IF d.immediate = <<>>
             THEN [w |-> w1, step |-> "InfiniteWait", timer |-> None]
             ELSE [w |-> w1, step |-> "ImmediateAction", timer |-> None]

RECURSIVE pop_timer(_)
pop_timer(w) ==
    LET ns == next_step(w)
        w1 == ns.w
    IN  CASE ns.step = "ImmediateAction" ->
               LET rc == Head(w1.disk.immediate)
                   w2 == [w1 EXCEPT !.disk.immediate = Tail(@)]
               IN  IF rc.kind = "Canceled" THEN pop_timer(w2)
                   ELSE IF rc.action.tag = "some"
                   THEN [w |-> w2, popped |-> "TimerExpired", body |-> rc]
                   ELSE [w |-> Panic(w2, "unreachable"), popped |-> "Panic", body |-> rc]
          [] ns.step = "TimerExpired" ->
               LET rc == ns.timer
                   w2 == [w1 EXCEPT !.disk.timers = @ \ {rc}]
               IN  IF rc.action.tag = "some"
                   THEN [w |-> w2, popped |-> "TimerExpired", body |-> rc]
                   ELSE [w |-> Panic(w2, "unreachable"), popped |-> "Panic", body |-> rc]
          [] ns.step = "NextTimerExpiry" ->
               [w |-> w1, popped |-> "NextTimerExpiry", body |-> ns.timer]
          [] OTHER ->
               [w |-> w1, popped |-> "InfiniteWait", body |-> None]

-----------------------------------------------------------------------------
(* Events *)

EvBorrow(w, e) == [w EXCEPT !.evRefs = @ \cup {e}]
EvRelease(w, e, held) == IF held THEN w ELSE [w EXCEPT !.evRefs = @ \ {e}]

EvBorrowMut(w, e) ==
    IF e \in w.evRefs THEN Panic(w, "BorrowMutError") ELSE w

make_event(w, action) ==
    LET uid == w.uidCtr + 1
    IN  [w EXCEPT !.uidCtr = uid,
                  !.events = [x \in DOMAIN @ \cup {uid} |->
                                 IF x = uid
                                 THEN [state |-> "Idle", action |-> Some(action),
                                       invoked |-> 0]
                                 ELSE @[x]],
                  !.ret = Some(uid)]

set_state(w, e, state) ==
    LET w1 == EvBorrowMut(w, e)
    IN  IF w1.panic # "none" THEN w1
        ELSE [w1 EXCEPT !.events[e].state = state]

(* Event::perf.  The Ref of the match scrutinee at line 1009 is alive in    *)
(* every arm.                                                               *)
perf(w, e) ==
    LET held == e \in w.evRefs
        b == EvBorrow(w, e)
        state == w.events[e].state
        r == CASE state = "Idle" -> Panic(b, "unreachable")
               [] state = "Triggered" ->
                    LET w1 == set_state(b, e, "Idle")
                        w2 == Then(w1, LAMBDA x : EvBorrowMut(x, e))
                    IN  IF w2.panic # "none" THEN w2
                        ELSE IF w2.events[e].action.tag = "some"
                        THEN [w2 EXCEPT !.events[e].action = None,
                                        !.events[e].invoked = @ + 1]
                        ELSE Panic(w2, "unreachable")
               [] OTHER -> set_state(b, e, "Idle")
    IN  EvRelease(r, e, held)

(* Event::trigger.  The Ref of the match scrutinee at line 1027 is alive in *)
(* every arm.                                                               *)
trigger(w, e) ==
    LET held == e \in w.evRefs
        b == EvBorrow(w, e)
        state == w.events[e].state
        r == CASE state = "Idle" ->
                    LET w1 == set_state(b, e, "Triggered")
                        w2 == Then(w1, LAMBDA x : EvBorrowMut(x, e))
                    IN  IF w2.panic # "none" \/ ~w2.disk.alive THEN w2
                        ELSE execute(w2, PerfAction(e))
               [] state = "Triggered" -> b
               [] OTHER -> set_state(b, e, "Triggered")
    IN  EvRelease(r, e, held)

(* Event::cancel.  The Ref of the match scrutinee at line 1054 is alive in  *)
(* every arm.                                                               *)
cancel_event(w, e) ==
    LET held == e \in w.evRefs
        b == EvBorrow(w, e)
        state == w.events[e].state
        r == IF state = "Triggered" THEN set_state(b, e, "Canceled") ELSE b
    IN  EvRelease(r, e, held)

(* Byte streams: values *)

Ok(data) == [tag |-> "ok", data |-> data]
Err(errno) == [tag |-> "err", errno |-> errno]
Return(w, r) == [w EXCEPT !.ret = r]

Noop == [tag |-> "noop"]
Notify(s) == [tag |-> "notify", stream |-> s]
FileNotify(s) == [tag |-> "file_notify", stream |-> s]
PacerRetry(s) == [tag |-> "pacer_retry", stream |-> s]
NiceRetry(s) == [tag |-> "nice_retry", stream |-> s]
QueueNotifier(s) == [tag |-> "queue_notifier", stream |-> s]

(* A closure the application registers as the callback of stream s; id     *)
(* tells one closure (one Rc) from another.                                 *)
StreamCallback(s, id) == [tag |-> "callback", stream |-> s, id |-> id]

TERMINATOR == 0
ESCAPE == 1
Stale == 3
BUF_SIZE == 2000
CHUNK_SIZE == 2000

Take(data, n) == SubSeq(data, 1, Min(n, Len(data)))
Drop(data, n) == SubSeq(data, Min(n, Len(data)) + 1, Len(data))

(* UID::new() *)
NewUid(w) == [w EXCEPT !.uidCtr = @ + 1]

AddStream(w, uid, body) ==
    [w EXCEPT !.streams = (uid :> body) @@ @]

-----------------------------------------------------------------------------
(* base::StreamBody *)

base_readNeverTrivial(len) == Err("EAGAIN")

base_read(len) == IF len = 0 THEN Ok(<<>>) ELSE Err("EAGAIN")

invoke_callbackUnlessQueued(w, s) ==
    IF w.disk.alive
       /\ \A i \in DOMAIN w.disk.immediate :
              w.disk.immediate[i].action # Some(w.streams[s].callback)
    THEN execute(w, w.streams[s].callback)
    ELSE w

invoke_callback(w, s) ==
    IF w.disk.alive THEN execute(w, w.streams[s].callback) ELSE w

register_callbackKeepsFirst(w, s, callback) ==
    LET w1 == IF w.disk.alive THEN execute(w, callback) ELSE w
    IN  IF w1.panic # "none" \/ w.streams[s].callback.tag = "callback" THEN w1
        ELSE [w1 EXCEPT !.streams[s].callback = callback]

register_callback(w, s, callback) ==
    LET w1 == IF w.disk.alive THEN execute(w, callback) ELSE w
    IN  IF w1.panic # "none" THEN w1
        ELSE [w1 EXCEPT !.streams[s].callback = callback]

unregister_callback(w, s) == [w EXCEPT !.streams[s].callback = Noop]

register_wrappee_callback(w, s, wrappee) == register_callback(w, wrappee, Notify(s))

-----------------------------------------------------------------------------
(* Stream constructors *)

blob_new(w, blob) ==
    AddStream(NewUid(w), w.uidCtr + 1,
              [kind |-> "blob", callback |-> Noop, blob |-> blob, cursor |-> 0])

empty_new(w) == AddStream(NewUid(w), w.uidCtr + 1, [kind |-> "empty", callback |-> Noop])

zero_new(w) == AddStream(NewUid(w), w.uidCtr + 1, [kind |-> "zero", callback |-> Noop])

dry_new(w) == AddStream(NewUid(w), w.uidCtr + 1, [kind |-> "dry", callback |-> Noop])

queue_new(w) ==
    AddStream(NewUid(w), w.uidCtr + 1,
              [kind |-> "queue", callback |-> Noop, queue |-> <<>>,
               terminated |-> FALSE, pending_error |-> None,
               notification_expected |-> FALSE])

enqueue(w, s, other) ==
    IF w.streams[s].terminated THEN Panic(w, "assertion failed")
    ELSE LET w1 == [w EXCEPT !.streams[s].queue = Append(@, other)]
             w2 == register_callback(w1, other, QueueNotifier(s))
         IN  IF w2.panic # "none" \/ ~w2.disk.alive THEN w2
             ELSE execute(w2, QueueNotifier(s))

terminate(w, s) == [w EXCEPT !.streams[s].terminated = TRUE]

nice_new(w, wrappee, max_burst) ==
    LET uid == w.uidCtr + 1
    IN  register_wrappee_callback(
            AddStream(NewUid(w), uid, [kind |-> "nice", callback |-> Noop, wrappee |-> wrappee,
                               max_burst |-> max_burst, cursor |-> 0]),
            uid, wrappee)

pacer_new(w, wrappee, byterate, min_burst, max_burst) ==
    IF byterate <= 0 \/ min_burst < 1 \/ max_burst < min_burst
    THEN Return(w, Err("EINVAL"))
    ELSE LET uid == w.uidCtr + 1
             w1 == disk_now(NewUid(w))
         IN  register_wrappee_callback(
                 AddStream(w1, uid, [kind |-> "pacer", callback |-> Noop,
                                     wrappee |-> wrappee, byterate |-> byterate,
                                     quota |-> 0, min_burst |-> min_burst,
                                     max_burst |-> max_burst, prev_time |-> w1.now,
                                     retry_timer |-> None]),
                 uid, wrappee)

sub_new(w, wrappee, begin, end, exhaust) ==
    LET uid == w.uidCtr + 1
    IN  register_wrappee_callback(
            AddStream(NewUid(w), uid, [kind |-> "sub", callback |-> Noop, wrappee |-> wrappee,
                               begin |-> begin, end |-> end, exhaust |-> exhaust,
                               cursor |-> 0]),
            uid, wrappee)

switch_new(w, wrappee) ==
    LET uid == w.uidCtr + 1
    IN  register_wrappee_callback(
            AddStream(NewUid(w), uid, [kind |-> "switch", callback |-> Noop, wrappee |-> wrappee]),
            uid, wrappee)

switchUnnoticed(w, s, wrappee) == [w EXCEPT !.streams[s].wrappee = wrappee]

switch(w, s, wrappee) ==
    LET w1 == register_wrappee_callback(w, s, wrappee)
    IN  IF w1.panic # "none" THEN w1 ELSE [w1 EXCEPT !.streams[s].wrappee = wrappee]

avid_new(w, wrappee) ==
    LET uid == w.uidCtr + 1
    IN  register_wrappee_callback(
            AddStream(NewUid(w), uid, [kind |-> "avid", callback |-> Noop, wrappee |-> wrappee]),
            uid, wrappee)

farewell_new(w, wrappee) ==
    LET uid == w.uidCtr + 1
    IN  register_wrappee_callback(
            AddStream(NewUid(w), uid, [kind |-> "farewell", callback |-> Noop,
                               wrappee |-> wrappee, farewell_callback |-> None]),
            uid, wrappee)

reservoir_new(w, wrappee, capacity) ==
    LET uid == w.uidCtr + 1
        w1 == queue_new(NewUid(w))
    IN  register_wrappee_callback(
            AddStream(w1, uid,
                      [kind |-> "reservoir", callback |-> Noop, wrappee |-> wrappee,
                       capacity |-> capacity, amount |-> 0, eof_reached |-> FALSE,
                       storage |-> w1.uidCtr]),
            uid, wrappee)

naiveencoder_new(w, wrappee, terminator, escape) ==
    LET uid == w.uidCtr + 1
    IN  register_wrappee_callback(
            AddStream(NewUid(w), uid,
                      [kind |-> "naiveencoder", callback |-> Noop, wrappee |-> wrappee,
                       state |-> "Reading", terminator |-> terminator,
                       escape |-> escape, buffer |-> <<>>, low |-> 0, high |-> 0]),
            uid, wrappee)

naivedecoder_new(w, wrappee, terminator, escape) ==
    LET uid == w.uidCtr + 1
    IN  register_wrappee_callback(
            AddStream(NewUid(w), uid,
                      [kind |-> "naivedecoder", callback |-> Noop, wrappee |-> wrappee,
                       state |-> "Reading", terminator |-> terminator,
                       escape |-> escape, remainder |-> 0]),
            uid, wrappee)

-----------------------------------------------------------------------------
(* read *)

RECURSIVE read(_, _, _)

Failed(w) == w.panic # "none" \/ w.ret.tag = "err"

(* A loop whose turn has returned Ok and changed nothing takes the same    *)
(* turn for ever.                                                           *)
Same(w1, w) == w1.streams = w.streams /\ w1.disk = w.disk /\ w1.uidCtr = w.uidCtr

blob_read(w, s, len) ==
    LET b == w.streams[s]
        count == Min(len, Len(b.blob) - b.cursor)
    IN  [w EXCEPT !.streams[s].cursor = @ + count,
                  !.ret = Ok(SubSeq(b.blob, b.cursor + 1, b.cursor + count))]

zero_read_nontrivial(w, s, len) == Return(w, Ok([i \in 1..len |-> 0]))

dry_read_nontrivial(w, s, len) == Return(w, Err("EAGAIN"))

empty_read_nontrivial(w, s, len) == Return(w, Ok(<<>>))

queue_finishNeverEnds(w, s, got) ==
    IF got # <<>> THEN Return(w, Ok(got)) ELSE Return(w, Err("EAGAIN"))

queue_finish(w, s, got) ==
    IF got # <<>> THEN Return(w, Ok(got))
    ELSE IF w.streams[s].terminated THEN Return(w, Ok(<<>>))
    ELSE Return(w, Err("EAGAIN"))

RECURSIVE queue_drain(_, _, _, _)
queue_drain(w, s, len, got) ==
    LET q == w.streams[s].queue
    IN  IF q = <<>> \/ Len(got) >= len THEN queue_finish(w, s, got)
        ELSE LET w1 == read(w, Head(q), len - Len(got))
                 r == w1.ret
             IN  IF w1.panic # "none" THEN w1
                 ELSE IF r.tag = "err"
                 THEN IF got = <<>>
                      THEN IF r.errno = "EAGAIN"
                           THEN [w1 EXCEPT !.streams[s].notification_expected = TRUE]
                           ELSE w1
                      ELSE queue_finish(
                               IF r.errno # "EAGAIN"
                               THEN [w1 EXCEPT !.streams[s].pending_error = Some(r.errno)]
                               ELSE w1,
                               s, got)
                 ELSE IF r.data = <<>>
                 THEN queue_drain([w1 EXCEPT !.streams[s].queue = Tail(@)], s, len, got)
                 ELSE queue_drain(w1, s, len, got \o r.data)

queue_readKeepsLatch(w, s, len) ==
    LET b == w.streams[s]
    IN  IF b.pending_error.tag = "some"
        THEN Return(w, Err(b.pending_error.val))
        ELSE queue_drain(w, s, len, <<>>)

queue_read(w, s, len) ==
    LET b == w.streams[s]
    IN  IF b.pending_error.tag = "some"
        THEN [w EXCEPT !.streams[s].pending_error = None,
                       !.ret = Err(b.pending_error.val)]
        ELSE queue_drain(w, s, len, <<>>)

back_offSilently(w, s) == [w EXCEPT !.streams[s].cursor = 0]

back_off(w, s) ==
    LET w1 == [w EXCEPT !.streams[s].cursor = 0]
    IN  IF w1.disk.alive THEN execute(w1, NiceRetry(s)) ELSE w1

nice_read_nontrivial(w, s, len) ==
    LET b == w.streams[s]
    IN  IF b.cursor >= b.max_burst
        THEN Then(back_off(w, s), LAMBDA x : Return(x, Err("EAGAIN")))
        ELSE LET w1 == read(w, b.wrappee, len)
             IN  IF w1.panic # "none" THEN w1
                 ELSE IF w1.ret.tag = "ok"
                 THEN [w1 EXCEPT !.streams[s].cursor = @ + Len(w1.ret.data)]
                 ELSE [w1 EXCEPT !.streams[s].cursor = 0]

pacer_read_nontrivialUnclamped(w, s, len) ==
    IF ~w.disk.alive THEN Return(w, Err("EBADF"))
    ELSE LET w1 == disk_now(w)
             b == w1.streams[s]
             quota == b.quota + (w1.now - b.prev_time) * b.byterate
             w2 == [w1 EXCEPT !.streams[s].quota = quota,
                              !.streams[s].prev_time = w1.now]
         IN  IF quota < b.min_burst
             THEN LET delay == ((b.min_burst - quota) + b.byterate - 1) \div b.byterate
                      w3 == schedule(w2, w2.now + delay, PacerRetry(s))
                  IN  IF w3.panic # "none" THEN w3
                      ELSE [w3 EXCEPT !.streams[s].retry_timer = w3.ret,
                                      !.ret = Err("EAGAIN")]
             ELSE LET w3 == read([w2 EXCEPT !.streams[s].retry_timer = None],
                                 b.wrappee, Min(len, quota))
                  IN  IF Failed(w3) THEN w3
                      ELSE [w3 EXCEPT !.streams[s].quota = @ - Len(w3.ret.data)]

pacer_read_nontrivial(w, s, len) ==
    IF ~w.disk.alive THEN Return(w, Err("EBADF"))
    ELSE LET w1 == disk_now(w)
             b == w1.streams[s]
             credit == b.quota + (w1.now - b.prev_time) * b.byterate
             quota == IF credit > b.max_burst THEN b.max_burst ELSE credit
             w2 == [w1 EXCEPT !.streams[s].quota = quota,
                              !.streams[s].prev_time = w1.now]
         IN  IF quota < b.min_burst
             THEN LET delay == ((b.min_burst - quota) + b.byterate - 1) \div b.byterate
                      w3 == schedule(w2, w2.now + delay, PacerRetry(s))
                  IN  IF w3.panic # "none" THEN w3
                      ELSE [w3 EXCEPT !.streams[s].retry_timer = w3.ret,
                                      !.ret = Err("EAGAIN")]
             ELSE LET w3 == read([w2 EXCEPT !.streams[s].retry_timer = None],
                                 b.wrappee, Min(len, quota))
                  IN  IF Failed(w3) THEN w3
                      ELSE IF Len(w3.ret.data) > w3.streams[s].quota
                      THEN Panic(w3, "assertion failed")
                      ELSE [w3 EXCEPT !.streams[s].quota = @ - Len(w3.ret.data)]

RECURSIVE sub_exhaust(_, _, _)
sub_exhaust(w, s, len) ==
    LET w1 == read(w, w.streams[s].wrappee, len)
    IN  IF Failed(w1) THEN w1
        ELSE IF Same(w1, w) THEN Panic(w1, "endless loop")
        ELSE sub_exhaust(w1, s, len)

RECURSIVE sub_read_nontrivialWholeBuffer(_, _, _)
sub_read_nontrivialWholeBuffer(w, s, len) ==
    LET b == w.streams[s]
    IN  IF b.cursor < b.begin
        THEN LET w1 == read(w, b.wrappee, Min(len, b.begin - b.cursor))
             IN  IF Failed(w1) THEN w1
                 ELSE IF w1.ret.data = <<>> /\ Same(w1, w) THEN Panic(w1, "endless loop")
                 ELSE sub_read_nontrivialWholeBuffer(
                          [w1 EXCEPT !.streams[s].cursor = @ + Len(w1.ret.data)], s, len)
        ELSE IF b.end.tag = "some"
        THEN IF b.cursor < b.end.val
             THEN LET w1 == read(w, b.wrappee, len)
                  IN  IF Failed(w1) THEN w1
                      ELSE [w1 EXCEPT !.streams[s].cursor = @ + Len(w1.ret.data)]
             ELSE IF b.exhaust THEN sub_exhaust(w, s, len)
             ELSE Return(w, Ok(<<>>))
        ELSE read(w, b.wrappee, len)

RECURSIVE sub_read_nontrivial(_, _, _)
sub_read_nontrivial(w, s, len) ==
    LET b == w.streams[s]
    IN  IF b.cursor < b.begin
        THEN LET w1 == read(w, b.wrappee, Min(len, b.begin - b.cursor))
             IN  IF Failed(w1) THEN w1
                 ELSE IF w1.ret.data = <<>> /\ Same(w1, w) THEN Panic(w1, "endless loop")
                 ELSE sub_read_nontrivial(
                          [w1 EXCEPT !.streams[s].cursor = @ + Len(w1.ret.data)], s, len)
        ELSE IF b.end.tag = "some"
        THEN IF b.cursor < b.end.val
             THEN LET w1 == read(w, b.wrappee, Min(len, b.end.val - b.cursor))
                  IN  IF Failed(w1) THEN w1
                      ELSE [w1 EXCEPT !.streams[s].cursor = @ + Len(w1.ret.data)]
             ELSE IF b.exhaust THEN sub_exhaust(w, s, len)
             ELSE Return(w, Ok(<<>>))
        ELSE read(w, b.wrappee, len)

switch_read_nontrivial(w, s, len) == read(w, w.streams[s].wrappee, len)

farewell_read_nontrivial(w, s, len) == read(w, w.streams[s].wrappee, len)

RECURSIVE avid_loop(_, _, _, _)
avid_loop(w, s, len, got) ==
    IF Len(got) >= len THEN Return(w, Ok(got))
    ELSE LET w1 == read(w, w.streams[s].wrappee, len - Len(got))
         IN  IF w1.panic # "none" THEN w1
             ELSE IF w1.ret.tag = "err"
             THEN IF got # <<>> THEN Return(w1, Ok(got)) ELSE w1
             ELSE IF w1.ret.data = <<>> THEN Return(w1, Ok(got))
             ELSE avid_loop(w1, s, len, got \o w1.ret.data)

avid_read_nontrivial(w, s, len) == avid_loop(w, s, len, <<>>)

RECURSIVE reservoir_fill(_, _, _)
reservoir_fill(w, s, len) ==
    LET b == w.streams[s]
    IN  IF b.amount > b.capacity THEN Return(w, Err("ENOSPC"))
        ELSE LET w1 == read(w, b.wrappee, CHUNK_SIZE)
             IN  IF Failed(w1) THEN w1
                 ELSE IF w1.ret.data = <<>>
                 THEN read([terminate(w1, b.storage) EXCEPT !.streams[s].eof_reached = TRUE],
                           b.storage, len)
                 ELSE LET w2 == [w1 EXCEPT !.streams[s].amount = @ + Len(w1.ret.data)]
                      IN  IF ~w2.disk.alive THEN Return(w2, Err("EBADF"))
                          ELSE LET w3 == blob_new(w2, w1.ret.data)
                                   w4 == enqueue(w3, b.storage, w3.uidCtr)
                               IN  IF w4.panic # "none" THEN w4
                                   ELSE reservoir_fill(w4, s, len)

reservoir_read_nontrivial(w, s, len) ==
    IF w.streams[s].eof_reached THEN read(w, w.streams[s].storage, len)
    ELSE reservoir_fill(w, s, len)

(* libc::read on a non-blocking descriptor.  err is the pending error of  *)
(* a socket: the kernel reports it to one read, once the data received     *)
(* before it has been read, and clears it.                                  *)
file_read_nontrivial(w, s, len) ==
    LET fd == w.streams[s].fd
    IN  IF fd.data # <<>>
        THEN [w EXCEPT !.streams[s].fd.data = Drop(@, len), !.ret = Ok(Take(fd.data, len))]
        ELSE IF fd.err # "none"
        THEN [w EXCEPT !.streams[s].fd.err = "none", !.ret = Err(fd.err)]
        ELSE IF fd.eof THEN Return(w, Ok(<<>>))
        ELSE Return(w, Err("EAGAIN"))

RECURSIVE encode(_, _, _)
RECURSIVE encode_loop(_, _, _, _)
encode_loop(w, s, len, out) ==
    LET b == w.streams[s]
    IN  IF Len(out) = len
        THEN [w EXCEPT !.streams[s].state = "Reading", !.ret = Ok(out)]
        ELSE IF b.low >= b.high
        THEN IF out # <<>>
             THEN [w EXCEPT !.streams[s].state = "Reading", !.ret = Ok(out)]
             ELSE LET w1 == read(w, b.wrappee, BUF_SIZE)
                  IN  IF Failed(w1) THEN w1
                      ELSE IF w1.ret.data = <<>>
                      THEN [w1 EXCEPT !.streams[s].state = "Terminated",
                                      !.ret = Ok(<<b.terminator>>)]
                      ELSE encode([w1 EXCEPT !.streams[s].low = 0,
                                             !.streams[s].high = Len(w1.ret.data),
                                             !.streams[s].buffer = w1.ret.data],
                                  s, len)
        ELSE LET next == b.buffer[b.low + 1]
                 escaped == b.escape.tag = "some"
                            /\ (next = b.escape.val \/ next = b.terminator)
                 out1 == IF escaped THEN Append(out, b.escape.val) ELSE out
             IN  IF escaped /\ Len(out1) = len
                 THEN [w EXCEPT !.streams[s].state = "Escaped", !.ret = Ok(out1)]
                 ELSE encode_loop([w EXCEPT !.streams[s].low = @ + 1], s, len,
                                  Append(out1, next))

encode(w, s, len) ==
    LET b == w.streams[s]
    IN  IF b.state = "Escaped"
        THEN IF b.low < b.high
             THEN encode_loop([w EXCEPT !.streams[s].low = @ + 1], s, len,
                              <<b.buffer[b.low + 1]>>)
             ELSE Panic(w, "assertion failed")
        ELSE encode_loop(w, s, len, <<>>)

naiveencoder_read_nontrivial(w, s, len) ==
    LET state == w.streams[s].state
    IN  CASE state \in {"Reading", "Escaped"} -> encode(w, s, len)
          [] state = "Exhausted" ->
                [w EXCEPT !.streams[s].state = "Terminated",
                          !.ret = Ok(<<w.streams[s].terminator>>)]
          [] OTHER -> Return(w, Ok(<<>>))

(* The caller's buffer after the wrappee has written count bytes into it *)
Buffer(data, len) == data \o [i \in 1..(len - Len(data)) |-> Stale]

RECURSIVE decode_loop(_, _, _, _, _, _)
decode_loop(w, s, buf, count, ri, wi) ==
    LET b == w.streams[s]
        len == Len(buf)
        out == SubSeq(buf, 1, wi)
    IN  IF ri >= count
        THEN LET w1 == [w EXCEPT !.streams[s].state = "Reading"]
             IN  IF wi = 0 THEN read(w1, s, len) ELSE Return(w1, Ok(out))
        ELSE IF buf[ri + 1] = b.terminator
        THEN IF ri + 1 = len
             THEN [w EXCEPT !.streams[s].state = "Terminated",
                            !.streams[s].remainder = b.wrappee,
                            !.ret = Ok(out)]
             ELSE IF ~w.disk.alive THEN Return(w, Err("EBADF"))
             ELSE LET w1 == queue_new(w)
                      q == w1.uidCtr
                      w2 == blob_new(w1, SubSeq(buf, ri + 2, len))
                      w3 == enqueue(w2, q, w2.uidCtr)
                      w4 == Then(w3, LAMBDA x : enqueue(x, q, b.wrappee))
                  IN  IF w4.panic # "none" THEN w4
                      ELSE [terminate(w4, q) EXCEPT !.streams[s].state = "Terminated",
                                                    !.streams[s].remainder = q,
                                                    !.ret = Ok(out)]
        ELSE LET skip == b.escape.tag = "some" /\ buf[ri + 1] = b.escape.val
                 ri1 == IF skip THEN ri + 1 ELSE ri
             IN  IF skip /\ ri1 >= count
                 THEN LET w1 == [w EXCEPT !.streams[s].state = "Escaped"]
                      IN  IF wi = 0 THEN read(w1, s, len) ELSE Return(w1, Ok(out))
                 ELSE decode_loop(w, s, [buf EXCEPT ![wi + 1] = buf[ri1 + 1]],
                                  count, ri1 + 1, wi + 1)

decode(w, s, buf, count) ==
    IF count < 1 THEN Panic(w, "assertion failed")
    ELSE IF w.streams[s].state = "Escaped"
    THEN decode_loop(w, s, buf, count, 1, 1)
    ELSE decode_loop(w, s, buf, count, 0, 0)

naivedecoder_read_nontrivial(w, s, len) ==
    LET b == w.streams[s]
    IN  CASE b.state \in {"Reading", "Escaped"} ->
                LET w1 == read(w, b.wrappee, len)
                IN  IF Failed(w1) THEN w1
                    ELSE IF w1.ret.data = <<>>
                    THEN [w1 EXCEPT !.streams[s].state = "Errored",
                                    !.ret = Err("EPROTO")]
                    ELSE decode(w1, s, Buffer(w1.ret.data, len), Len(w1.ret.data))
          [] b.state = "Terminated" -> Return(w, Ok(<<>>))
          [] OTHER -> Return(w, Err("EPROTO"))

read_nontrivial(w, s, len) ==
    LET kind == w.streams[s].kind
    IN  CASE kind = "blob" -> blob_read(w, s, len)
          [] kind = "zero" -> zero_read_nontrivial(w, s, len)
          [] kind = "dry" -> dry_read_nontrivial(w, s, len)
          [] kind = "queue" -> queue_read(w, s, len)
          [] kind = "nice" -> nice_read_nontrivial(w, s, len)
          [] kind = "pacer" -> pacer_read_nontrivial(w, s, len)
          [] kind = "sub" -> sub_read_nontrivial(w, s, len)
          [] kind = "switch" -> switch_read_nontrivial(w, s, len)
          [] kind = "farewell" -> farewell_read_nontrivial(w, s, len)
          [] kind = "avid" -> avid_read_nontrivial(w, s, len)
          [] kind = "reservoir" -> reservoir_read_nontrivial(w, s, len)
          [] kind = "file" -> file_read_nontrivial(w, s, len)
          [] kind = "naiveencoder" -> naiveencoder_read_nontrivial(w, s, len)
          [] kind = "naivedecoder" -> naivedecoder_read_nontrivial(w, s, len)
          [] OTHER -> empty_read_nontrivial(w, s, len)

(* ByteStreamBody::read of every stream: the trivial read of the base, *)
(* then the stream's own read.  w.calls counts the reads made.          *)
read(w, s, len) ==
    LET w1 == [w EXCEPT !.calls = @ + 1]
    IN  IF w.streams[s].kind = "empty" THEN empty_read_nontrivial(w1, s, len)
        ELSE IF base_read(len).tag = "ok" THEN Return(w1, Ok(<<>>))
        ELSE read_nontrivial(w1, s, len)

-----------------------------------------------------------------------------
(* misc::linger: a Linger copies its source stream to the descriptor dest. *)
(* dest is the descriptor with what the kernel holds for it: the bytes     *)
(* written so far, and script, what the next calls of write will return (a *)
(* positive number: that many bytes are taken, at most; -1: an error other *)
(* than EAGAIN; nothing left: EAGAIN).                                      *)

Jockey(l) == [tag |-> "jockey", stream |-> l]

Busy == [tag |-> "Busy"]
Drifting == [tag |-> "Drifting"]
Final(result) == [tag |-> "Final", result |-> result]
StaleState == [tag |-> "Stale"]

(* LingerBody::consume; it returns the state taken *)
linger_consume(w, l) ==
    [w EXCEPT !.streams[l].registration = None,
              !.streams[l].self_ref = FALSE,
              !.streams[l].state = StaleState,
              !.ret = w.streams[l].state]

linger_doneSilently(w, l, result) ==
    IF w.streams[l].state = Drifting THEN linger_consume(w, l)
    ELSE [w EXCEPT !.streams[l].state = Final(result)]

linger_done(w, l, result) ==
    IF w.streams[l].state = Drifting THEN linger_consume(w, l)
    ELSE LET w1 == [w EXCEPT !.streams[l].state = Final(result)]
             callback == w.streams[l].callback
         IN  IF callback.tag = "some" /\ w1.disk.alive
             THEN execute(w1, callback.val)
             ELSE w1

drift(w, l) ==
    CASE w.streams[l].state = Busy -> [w EXCEPT !.streams[l].state = Drifting]
      [] w.streams[l].state.tag = "Final" -> linger_consume(w, l)
      [] OTHER -> w

replenish_againRewinds(w, l) == [w EXCEPT !.streams[l].cursor = 0]

(* replenish has returned EAGAIN (line 289) *)
replenish_again(w, l) == [w EXCEPT !.streams[l].cursor = w.streams[l].length]

RECURSIVE jockey_loop(_, _)

(* The match on what replenish has returned (lines 271-295); w is the     *)
(* world after the read of the source                                       *)
replenished(w, l) ==
    IF w.panic # "none" THEN w
    ELSE IF w.ret.tag = "ok"
    THEN IF w.ret.data = <<>> THEN linger_done(w, l, Ok(<<>>))
         ELSE jockey_loop(
                  [w EXCEPT !.streams[l].buf = w.ret.data \o Drop(@, Len(w.ret.data)),
                            !.streams[l].cursor = 0,
                            !.streams[l].length = Len(w.ret.data)], l)
    ELSE IF w.ret.errno = "EAGAIN" THEN replenish_again(w, l)
    ELSE linger_done(w, l, w.ret)

jockey_loopReadsEarly(w, l) ==
    LET body == w.streams[l]
    IN  IF body.cursor < body.length /\ body.dest.script # <<>>
        THEN IF Head(body.dest.script) < 0
             THEN linger_done([w EXCEPT !.streams[l].dest.script = Tail(@)], l, Err("EIO"))
             ELSE LET count == Min(Head(body.dest.script), body.length - body.cursor)
                  IN  jockey_loop(
                          [w EXCEPT !.streams[l].dest.script = Tail(@),
                                    !.streams[l].dest.written =
                                        @ \o SubSeq(body.buf, body.cursor + 1,
                                                    body.cursor + count),
                                    !.streams[l].cursor = @ + count], l)
        ELSE replenished(read(w, body.source, Len(body.buf)), l)

(* The loop of jockey (lines 238-296) *)
jockey_loop(w, l) ==
    LET body == w.streams[l]
    IN  IF body.cursor < body.length
        THEN IF body.dest.script = <<>> THEN w
             ELSE IF Head(body.dest.script) < 0
             THEN linger_done([w EXCEPT !.streams[l].dest.script = Tail(@)], l, Err("EIO"))
             ELSE LET count == Min(Head(body.dest.script), body.length - body.cursor)
                  IN  jockey_loop(
                          [w EXCEPT !.streams[l].dest.script = Tail(@),
                                    !.streams[l].dest.written =
                                        @ \o SubSeq(body.buf, body.cursor + 1,
                                                    body.cursor + count),
                                    !.streams[l].cursor = @ + count], l)
        ELSE replenished(read(w, body.source, Len(body.buf)), l)

jockey(w, l) ==
    IF w.streams[l].state # Busy THEN w ELSE jockey_loop(w, l)

abortLeavesState(w, l) == [w EXCEPT !.ret = w.streams[l].state]

(* Linger::abort; it returns the state taken *)
abort(w, l) == linger_consume(w, l)

prod(w, l) ==
    IF w.disk.alive THEN execute(w, Jockey(l)) ELSE w

(* What the kernel answers to fcntl and epoll_ctl.  open is the set of     *)
(* descriptors the process holds, interest the set the epoll instance       *)
(* watches; closing a descriptor takes it out of both.                      *)
nonblock(open, fd) == IF fd \in open THEN "ok" ELSE "EBADF"

epoll_ctl(open, interest, op, fd) ==
    IF fd \notin open THEN "EBADF"
    ELSE IF op = "EPOLL_CTL_ADD"
    THEN IF fd \in interest THEN "EEXIST" ELSE "ok"
    ELSE IF fd \in interest THEN "ok" ELSE "ENOENT"

(* Disk::unregister; status is what epoll_ctl(EPOLL_CTL_DEL) answers.  The  *)
(* entry has left the table when the kernel is asked.                       *)
unregister(w, fd, status) ==
    LET w1 == DiskBorrowMut(w)
    IN  IF w1.panic # "none" THEN w1
        ELSE IF fd \notin DOMAIN w1.disk.registrations
        THEN Panic(w1, "unregistering file descriptor that has not been registered")
        ELSE [w1 EXCEPT !.disk.registrations =
                           [x \in DOMAIN @ \ {fd} |-> @[x]],
                        !.ret = IF status = "ok" THEN Ok(<<>>) ELSE Err(status)]

(* The action a connection progress registers for its socket *)
ProgressTrigger(p) == [tag |-> "progress_trigger", stream |-> p]

(* The callback a Resolver registers with its pipe (resolver.rs:46-53) *)
ResolverNotify(r) == [tag |-> "resolver_notify", stream |-> r]

(* The action a Duplex registers for its descriptor *)
DuplexNotify(d) == [tag |-> "duplex_notify", stream |-> d]

InProgress == "InProgress"
Triggered == "Triggered"
Established == "Established"
Done == "Done"

(* TcpProgressBody::trigger and UnixProgressBody::trigger; dropping the     *)
(* Registration taken at line 41 unregisters the socket.                    *)
progress_trigger(w, p) ==
    LET b == w.streams[p]
    IN  IF b.state = InProgress
        THEN LET w1 == [w EXCEPT !.streams[p].state = Triggered,
                                 !.streams[p].registration = None]
                 w2 == IF b.registration # None /\ w1.disk.alive
                       THEN unregister(w1, b.registration.val, "ok")
                       ELSE w1
             IN  IF w2.panic # "none" \/ ~w2.disk.alive THEN w2
                 ELSE execute(w2, b.callback)
        ELSE w

(* DuplexBody::notify *)
duplex_notify(w, d) ==
    LET w1 == invoke_callback(w, d)
    IN  IF w1.panic # "none" \/ w1.streams[d].egress = None THEN w1
        ELSE prod(w1, w1.streams[d].egress.val)

(* Calling the action taken from a timer: a user closure, or the delegate  *)
(* of Event::trigger (lines 1033-1037), which upgrades its weak Event.      *)
RECURSIVE RunAction(_, _)
RunAction(w, action) ==
    LET known == action.stream \in DOMAIN w.streams
    IN  CASE action.tag = "perf" ->
                IF action.ev \in DOMAIN w.events THEN perf(w, action.ev) ELSE w
          [] action.tag \in {"notify", "file_notify", "pacer_retry"} ->
                IF known THEN invoke_callback(w, action.stream) ELSE w
          [] action.tag \in {"nice_retry", "queue_notifier"} ->
                IF known THEN RunAction(w, w.streams[action.stream].callback) ELSE w
          [] action.tag = "callback" -> [w EXCEPT !.invoked = Append(@, action)]
          [] action.tag = "jockey" -> IF known THEN jockey(w, action.stream) ELSE w
          [] action.tag = "progress_trigger" ->
                IF known THEN progress_trigger(w, action.stream) ELSE w
          [] action.tag = "duplex_notify" ->
                IF known THEN duplex_notify(w, action.stream) ELSE w
          [] action.tag = "resolver_notify" ->
                IF known /\ w.disk.alive
                THEN execute(w, w.streams[action.stream].callback) ELSE w
          [] OTHER -> w

Invoke(w, body) ==
    RunAction([w EXCEPT !.fired = @ \cup {body.uid}], body.action.val)

-----------------------------------------------------------------------------
(* Registrations and the poller *)

FDs == {1, 2}
NoFd == 0
Interrupted == -1

register(w, fd, action) ==
    LET w1 == make_event(w, action)
        e == w1.uidCtr
        w2 == DiskBorrowMut(w1)
    IN  IF w2.panic # "none" THEN w2
        ELSE wake_up([w2 EXCEPT !.disk.registrations =
                                   [x \in DOMAIN @ \cup {fd} |->
                                       IF x = fd THEN e ELSE @[x]],
                                !.ret = Some(fd)])

(* Disk::register_with_flags with what the kernel answers: blocking is    *)
(* what nonblock(fd) returns, status what epoll_ctl(EPOLL_CTL_ADD) does.   *)
(* Both failures return before the table is touched.                       *)
register_with_flags(w, fd, action, blocking, status) ==
    IF blocking # "ok" THEN Return(w, Err(blocking))
    ELSE IF status # "ok" THEN Return(w, Err(status))
    ELSE register(w, fd, action)

(* Disk::modify_old_school; status is what epoll_ctl(EPOLL_CTL_MOD) does *)
modify_old_school(w, fd, status) ==
    IF fd \notin DOMAIN w.disk.registrations THEN Return(w, Err("EBADF"))
    ELSE IF status # "ok" THEN Return(w, Err(status))
    ELSE Return(wake_up(w), Ok(<<>>))

(* file::Stream::new.  fd is the descriptor with what the kernel holds for *)
(* it: [no, data, eof, err].                                               *)
file_new(w, fd, sync) ==
    LET uid == w.uidCtr + 1
        w1 == AddStream(NewUid(w), uid,
                        [kind |-> "file", callback |-> Noop, fd |-> fd,
                         registration |-> None])
    IN  IF sync THEN w1
        ELSE LET w2 == register(w1, fd.no, FileNotify(uid))
             IN  IF w2.panic # "none" THEN w2
                 ELSE [w2 EXCEPT !.streams[uid].registration = w2.ret]

(* Linger::new *)
linger_new(w, source, fd, sync) ==
    LET uid == w.uidCtr + 1
        w1 == AddStream(NewUid(w), uid,
                        [kind |-> "linger", source |-> source,
                         dest |-> [no |-> fd, written |-> <<>>, script |-> <<>>],
                         buf |-> <<>> \o [i \in 1..MaxLingerBuf |-> 0],
                         cursor |-> 0, length |-> 0, callback |-> None,
                         state |-> Busy, self_ref |-> TRUE, registration |-> None])
        w2 == IF sync THEN w1 ELSE register(w1, fd, Jockey(uid))
        w3 == IF sync \/ w2.panic # "none" THEN w2
              ELSE [w2 EXCEPT !.streams[uid].registration = w2.ret]
    IN  IF w3.panic # "none" THEN w3
        ELSE Return(register_callback(w3, source, Jockey(uid)), Some(uid))

linger_register_callback(w, l, callback) ==
    [w EXCEPT !.streams[l].callback = Some(callback)]

(* Duplex::new: the egress switch on a dry stream, the ingress file stream *)
(* and the egress Linger on fd, and the registration of fd.                 *)
duplex_new(w, fd) ==
    LET uid == w.uidCtr + 1
        w1 == dry_new(NewUid(w))
        eswitch == w1.uidCtr + 1
        w2 == switch_new(w1, w1.uidCtr)
        ingress == w2.uidCtr + 1
        w3 == file_new(w2, [no |-> fd, data |-> <<>>, eof |-> FALSE, err |-> "none"], TRUE)
        egress == w3.uidCtr + 1
        w4 == linger_new(w3, eswitch, fd, TRUE)
        w5 == AddStream(w4, uid, [kind |-> "duplex", callback |-> Noop,
                                  ingress |-> ingress, egress |-> Some(egress),
                                  eswitch |-> Some(eswitch), registration |-> None])
        w6 == register(w5, fd, DuplexNotify(uid))
    IN  IF w4.panic # "none" THEN w4
        ELSE IF w6.panic # "none" THEN w6
        ELSE [w6 EXCEPT !.streams[uid].registration = w6.ret, !.ret = Ok(uid)]

(* DuplexBody::set_egress *)
set_egress(w, d, egress) ==
    IF w.streams[d].eswitch = None THEN w
    ELSE switch(w, w.streams[d].eswitch.val, egress)

(* The descriptor socket() returns *)
SocketFd == 1

(* is_inprogress of tcp_connect.rs (EINPROGRESS) and of unix_connect.rs     *)
(* (error::is_again)                                                        *)
is_inprogress(family, err) ==
    IF family = "tcp" THEN err = "EINPROGRESS" ELSE err = "EAGAIN"

(* TcpProgress::new and UnixProgress::new with new_established and          *)
(* new_in_progress.  connected is what connect() has returned: "ok" or an  *)
(* errno.  so_error is the SO_ERROR the kernel holds for the socket.        *)
progress_new(w, family, connected, action) ==
    LET uid == w.uidCtr + 1
        body == [kind |-> "progress", family |-> family, socket |-> Some(SocketFd),
                 state |-> Established, registration |-> None, callback |-> Noop,
                 so_error |-> "0"]
    IN  IF connected = "ok"
        THEN Return(execute(AddStream(NewUid(w), uid, body), action), Ok(uid))
        ELSE IF ~is_inprogress(family, connected) THEN Return(w, Err(connected))
        ELSE LET w1 == AddStream(NewUid(w), uid,
                                 [body EXCEPT !.state = InProgress, !.callback = action,
                                              !.so_error = connected])
                 w2 == register(w1, SocketFd, ProgressTrigger(uid))
             IN  IF w2.panic # "none" THEN w2
                 ELSE [w2 EXCEPT !.streams[uid].registration = w2.ret, !.ret = Ok(uid)]

(* The Some/None arms on weak_disk.upgrade() of take and get_socket_status *)
hand_off(w, p) ==
    IF w.disk.alive
    THEN IF w.streams[p].socket = None THEN Panic(w, "unwrap on None")
         ELSE duplex_new([w EXCEPT !.streams[p].socket = None], w.streams[p].socket.val)
    ELSE Return(w, Err("EBADF"))

(* getsockopt(SO_ERROR) returns the pending error of the socket and clears *)
(* it.                                                                      *)
get_socket_status(w, p) ==
    LET errno == w.streams[p].so_error
        w1 == [w EXCEPT !.streams[p].so_error = "0"]
    IN  CASE errno = "0" -> hand_off(w1, p)
          [] errno \in {"EINPROGRESS", "EAGAIN"} -> Panic(w1, "unreachable")
          [] OTHER -> Return(w1, Err(errno))

takeStaysTriggered(w, p) ==
    LET state == w.streams[p].state
    IN  CASE state = InProgress -> Return(w, Err("EAGAIN"))
          [] state = Triggered -> get_socket_status(w, p)
          [] state = Established -> hand_off([w EXCEPT !.streams[p].state = Done], p)
          [] OTHER -> Return(w, Err("EBADF"))

(* TcpProgressBody::take and UnixProgressBody::take *)
take(w, p) ==
    LET state == w.streams[p].state
    IN  CASE state = InProgress -> Return(w, Err("EAGAIN"))
          [] state = Triggered ->
               get_socket_status([w EXCEPT !.streams[p].state = Done], p)
          [] state = Established -> hand_off([w EXCEPT !.streams[p].state = Done], p)
          [] OTHER -> Return(w, Err("EBADF"))

(* The read end of the pipe that misc::pipe makes *)
ResolverPipeFd == 1

(* Resolver::new: misc::pipe, the worker thread and the callback of the    *)
(* read stream.  worker is the thread: its position (Resolving, Resolved   *)
(* when to_socket_addrs has returned result, Closed when write_fd has been *)
(* dropped, Exited when the thread can be joined).  joining holds while    *)
(* poll() is inside JoinHandle::join.                                       *)
resolver_new(w) ==
    LET read_stream == w.uidCtr + 1
        w1 == file_new(w, [no |-> ResolverPipeFd, data |-> <<>>, eof |-> FALSE,
                           err |-> "none"], FALSE)
        uid == w1.uidCtr + 1
        w2 == AddStream(NewUid(w1), uid,
                        [kind |-> "resolver", pipe |-> read_stream, jh |-> Some(uid),
                         callback |-> Noop, joining |-> FALSE,
                         worker |-> [pc |-> "Resolving", result |-> None]])
    IN  IF w1.panic # "none" THEN w1
        ELSE Return(register_callback(w2, read_stream, ResolverNotify(uid)), Ok(uid))

(* The arms of the match on what the read of the pipe has returned *)
polledKeepsHandle(w1, r) ==
    IF Failed(w1) THEN w1
    ELSE IF w1.ret.data # <<>> THEN Panic(w1, "unreachable")
    ELSE IF w1.streams[r].jh = None THEN Return(w1, Err("EBADF"))
    ELSE [w1 EXCEPT !.streams[r].joining = TRUE, !.ret = None]

polled(w1, r) ==
    IF Failed(w1) THEN w1
    ELSE IF w1.ret.data # <<>> THEN Panic(w1, "unreachable")
    ELSE IF w1.streams[r].jh = None THEN Return(w1, Err("EBADF"))
    ELSE [w1 EXCEPT !.streams[r].jh = None, !.streams[r].joining = TRUE,
                    !.ret = None]

(* Resolver::poll up to the call of join (lines 77-87) *)
resolver_poll(w, r) == polled(read(w, w.streams[r].pipe, 1), r)

(* The return of jh.join().unwrap() and of poll (lines 88-106) *)
resolver_joined(w, r) ==
    [w EXCEPT !.streams[r].joining = FALSE, !.ret = w.streams[r].worker.result]

(* One ready fd handed to its Event: the lookup and the Some/None arms of *)
(* try_io (lines 620-628) and of do_loop (lines 704-715).  The Ref of     *)
(* self.body() is alive while the Event is triggered.                      *)
dispatch(w, fd) ==
    LET b == [w EXCEPT !.diskRefs = @ + 1]
        r == IF fd \in DOMAIN b.disk.registrations
             THEN trigger(b, b.disk.registrations[fd])
             ELSE b
    IN  [r EXCEPT !.diskRefs = @ - 1]

(* rdy is what epoll_wait has put in the one-element vector: no fd, the  *)
(* ready fd, or Interrupted when the call has failed                      *)
try_io(w, next_expiry, rdy) ==
    IF rdy = Interrupted THEN Return(w, Err("EINTR"))
    ELSE IF rdy = NoFd THEN [w EXCEPT !.ret = Some(next_expiry)]
    ELSE LET w1 == dispatch(w, rdy)
         IN  [w1 EXCEPT !.ret = Some(w1.disk.recent)]

poll(w, rdy) ==
    LET p == pop_timer(w)
    IN  CASE p.popped = "TimerExpired" ->
               LET w1 == Invoke(p.w, p.body)
               IN  [w1 EXCEPT !.ret = Some(w1.disk.recent)]
          [] p.popped = "NextTimerExpiry" -> try_io(p.w, p.body.expires, rdy)
          [] p.popped = "InfiniteWait" -> [p.w EXCEPT !.ret = None]
          [] OTHER -> p.w

quit(w) == wake_up([w EXCEPT !.disk.quit = TRUE])

(* Disk::sleep: epoll_wait is handed vec![], so maxevents is 0, which the  *)
(* kernel refuses with EINVAL; with room for an event it would wait until  *)
(* the time given, or less.                                                 *)
sleep(w, until) ==
    LET maxevents == Len(<<>>)
    IN  IF maxevents <= 0 THEN Return(w, Err("EINVAL"))
        ELSE Return([w EXCEPT !.now = IF until > @ THEN until ELSE @], Ok(<<>>))

(* Disk::flush: one turn of the loop, and the arms of the match on what    *)
(* poll has returned.                                                       *)
RECURSIVE flush(_, _, _)
flushed(w, expires, rdy) ==
    IF w.panic # "none" THEN w
    ELSE IF w.ret = None THEN Return(w, Ok(<<>>))
    ELSE LET w1 == sleep(w, w.ret.val)
         IN  IF w1.ret.tag = "err" THEN w1 ELSE flush(w1, expires, rdy)

flush(w, expires, rdy) ==
    LET w1 == disk_now(w)
    IN  IF w1.now >= expires THEN Return(w1, Err("ETIME"))
        ELSE flushed(poll(w1, rdy), expires, rdy)

-----------------------------------------------------------------------------
(* The main loop: take_immediate_action and do_loop, one step per timer    *)
(* action and one step per return of the poller.                            *)

IdleLoop ==
    [pc |-> "idle", countdown |-> 0, result |-> None, ran |-> 0, dispatched |-> 0]

(* What epoll_wait can write into a buffer of maxevents entries: the ready *)
(* fds of the interest set, each once, in any order.                        *)
RECURSIVE Arrangements(_, _)
Arrangements(fds, n) ==
    IF n = 0 THEN {<<>>}
    ELSE {<<>>} \cup UNION {{<<fd>> \o rest : rest \in Arrangements(fds \ {fd}, n - 1)} :
                              fd \in fds}

epoll_wait(interest, maxevents) ==
    Arrangements(interest, Min(Cardinality(interest), maxevents))

DrainWhileNotNegative(countdown) == countdown >= 0

DrainWhile(countdown) == countdown > 0

(* After take_immediate_action has returned result: the quit test of       *)
(* do_loop (line 679), else on to the poller.                               *)
AfterTake(w, result) ==
    [loop EXCEPT !.pc = IF w.panic # "none" THEN "panicked"
                        ELSE IF w.disk.quit THEN "done" ELSE "wait",
                 !.result = result]

RECURSIVE dispatch_all(_, _)
dispatch_all(w, ready) ==
    IF ready = <<>> \/ w.panic # "none" THEN w
    ELSE dispatch_all(dispatch(w, Head(ready)), Tail(ready))

-----------------------------------------------------------------------------
(* The initial state: a Disk just made by Disk::new *)

NewDisk ==
    [alive |-> TRUE, immediate |-> <<>>, timers |-> {},
     registrations |-> <<>>, quit |-> FALSE, wakeup_fd |-> FALSE,
     pipe |-> 0, recent |-> 0]

Init ==
    /\ now = 0
    /\ uidCtr = 0
    /\ disk = NewDisk
    /\ events = <<>>
    /\ streams = <<>>
    /\ loop = IdleLoop
    /\ panic = "none"
    /\ fired = {}
    /\ canceled = {}
    /\ last = Did("new", 0)

-----------------------------------------------------------------------------
(* Calls of the application: made before the loop runs, or from inside a   *)
(* timer action.                                                            *)

Running == panic = "none"
AppTurn == Running /\ loop.pc \in {"idle", "action"}
UidCap == IF loop.pc = "idle" THEN MaxUid ELSE MaxLoopUid
TimerUids == LiveUids(disk) \cup fired \cup canceled
Body(uid) == CHOOSE b \in ImmediateBodies(disk) \cup disk.timers : b.uid = uid

Tick ==
    /\ Running
    /\ now < MaxTime
    /\ now' = now + 1
    /\ last' = Did("tick", 0)
    /\ UNCHANGED <<uidCtr, disk, events, streams, loop, panic, fired, canceled>>

Execute ==
    /\ AppTurn
    /\ uidCtr < UidCap
    /\ Cardinality(LiveUids(disk)) < MaxLive
    /\ Commit(execute(World, UserAction))
    /\ last' = Did("execute", uidCtr + 1)
    /\ UNCHANGED loop

Schedule ==
    /\ AppTurn
    /\ uidCtr < MaxUid
    /\ Cardinality(LiveUids(disk)) < MaxLive
    /\ \E expires \in Times :
          Commit(schedule(World, expires, UserAction))
    /\ last' = Did("schedule", uidCtr + 1)
    /\ UNCHANGED loop

Cancel ==
    /\ AppTurn
    /\ \E uid \in TimerUids :
          /\ Commit([cancel(World, uid) EXCEPT
                        !.canceled = IF uid \in LiveUids(disk) THEN @ \cup {uid} ELSE @])
          /\ last' = [op |-> "cancel", arg |-> uid,
                      body |-> IF uid \in LiveUids(disk) THEN Entry(Body(uid))
                               ELSE NoEntry]
    /\ UNCHANGED loop

Poll ==
    /\ Running
    /\ loop.pc = "idle"
    /\ \E rdy \in {NoFd} \cup DOMAIN disk.registrations :
          LET w == poll(World, rdy)
              p == pop_timer(World)
          IN  /\ Commit(w)
              /\ last' = [op |-> "poll", arg |-> rdy,
                          body |-> IF p.popped = "TimerExpired" THEN Entry(p.body)
                                   ELSE NoEntry,
                          invoked |-> w.invoked]
    /\ UNCHANGED loop

MakeEvent ==
    /\ AppTurn
    /\ uidCtr < MaxUid
    /\ Commit(make_event(World, UserAction))
    /\ last' = Did("make_event", uidCtr + 1)
    /\ UNCHANGED loop

Register ==
    /\ AppTurn
    /\ uidCtr < MaxUid
    /\ \E fd \in FDs \ DOMAIN disk.registrations :
          Commit(register(World, fd, UserAction))
    /\ last' = Did("register", uidCtr + 1)
    /\ UNCHANGED loop

Trigger ==
    /\ AppTurn
    /\ \E e \in DOMAIN events :
          /\ Commit(trigger(World, e))
          /\ last' = Did("trigger", e)
    /\ UNCHANGED loop

CancelEvent ==
    /\ AppTurn
    /\ \E e \in DOMAIN events :
          /\ Commit(cancel_event(World, e))
          /\ last' = Did("cancel_event", e)
    /\ UNCHANGED loop

Quit ==
    /\ AppTurn
    /\ ~disk.quit
    /\ Commit(quit(World))
    /\ last' = Did("quit", 0)
    /\ UNCHANGED loop

(* Streams that no other stream holds *)
Holds(b) ==
    (IF "wrappee" \in DOMAIN b THEN {b.wrappee} ELSE {})
    \cup (IF "queue" \in DOMAIN b THEN {b.queue[i] : i \in DOMAIN b.queue} ELSE {})
    \cup (IF "storage" \in DOMAIN b THEN {b.storage} ELSE {})
    \cup (IF "remainder" \in DOMAIN b THEN {b.remainder} ELSE {})
RECURSIVE Within(_)
Within(s) == {s} \cup UNION {Within(x) : x \in Holds(streams[s]) \ {0}}
Held == UNION {Holds(streams[s]) : s \in DOMAIN streams}
Free == DOMAIN streams \ Held
Kind(k) == {s \in DOMAIN streams : streams[s].kind = k}
StreamTurn == Running /\ uidCtr < MaxStreamUid
NewTurn == StreamTurn /\ Cardinality(DOMAIN streams) < MaxStreams

New(w) == Commit(w) /\ last' = Did("new", w.uidCtr) /\ UNCHANGED loop

(* Time matters to the pacer alone *)
StreamTick == Kind("pacer") # {} /\ Tick

NewBlob == NewTurn /\ \E blob \in Blobs : New(blob_new(World, blob))
NewEmpty == NewTurn /\ New(empty_new(World))
NewZero == NewTurn /\ New(zero_new(World))
NewDry == NewTurn /\ New(dry_new(World))
NewQueue == NewTurn /\ New(queue_new(World))
NewFile ==
    /\ NewTurn
    /\ \E no \in {1} \ DOMAIN disk.registrations, sync \in BOOLEAN :
          New(file_new(World, [no |-> no, data |-> <<2>>, eof |-> TRUE, err |-> "none"],
                       sync))
NewNice == NewTurn /\ \E s \in Free : New(nice_new(World, s, MaxBurst))
NewPacer == NewTurn /\ \E s \in Free : New(pacer_new(World, s, 1, MinBurst, MaxBurst))
NewSub ==
    /\ NewTurn
    /\ \E s \in Free, p \in {<<None, FALSE>>, <<Some(2), TRUE>>} :
          New(sub_new(World, s, 1, p[1], p[2]))
NewSwitch == NewTurn /\ \E s \in Free : New(switch_new(World, s))
NewAvid == NewTurn /\ \E s \in Free : New(avid_new(World, s))
NewFarewell == NewTurn /\ \E s \in Free : New(farewell_new(World, s))
NewReservoir == NewTurn /\ \E s \in Free : New(reservoir_new(World, s, Capacity))
(* The encoder is given streams that end *)
NewNaiveEncoder ==
    /\ NewTurn
    /\ \E s \in Free :
          /\ \A x \in Within(s) : streams[x].kind # "zero"
          /\ New(naiveencoder_new(World, s, TERMINATOR, Some(ESCAPE)))
NewNaiveDecoder == NewTurn /\ \E s \in Free : New(naivedecoder_new(World, s, TERMINATOR, Some(ESCAPE)))

Enqueue ==
    /\ StreamTurn
    /\ \E q \in Kind("queue") \cap Free : \E other \in Free \ {q} :
          /\ ~streams[q].terminated
          /\ Commit(enqueue(World, q, other))
          /\ last' = Did("enqueue", q)
    /\ UNCHANGED loop

Terminate ==
    /\ Running
    /\ \E q \in Kind("queue") \cap Free :
          /\ ~streams[q].terminated
          /\ Commit(terminate(World, q))
          /\ last' = Did("terminate", q)
    /\ UNCHANGED loop

Switch ==
    /\ StreamTurn
    /\ \E s \in Kind("switch") \cap Free : \E other \in Free \ {s} :
          /\ Commit(switch(World, s, other))
          /\ last' = Did("switch", s)
    /\ UNCHANGED loop

Read ==
    /\ StreamTurn
    /\ \E s \in DOMAIN streams, len \in 0..MaxRead :
          LET w == read(World, s, len)
          IN  /\ len = 0 \/ s \in Free
              /\ Commit(w)
              /\ last' = [op |-> "read", arg |-> s, body |-> NoEntry,
                          len |-> len, ret |-> w.ret, calls |-> w.calls]
    /\ UNCHANGED loop

(* ByteStream::register_callback with a closure made for the call, and   *)
(* ByteStream::unregister_callback                                         *)
RegisterCallback ==
    /\ Running
    /\ uidCtr < MaxCallbackUid
    /\ \E s \in Free :
          LET cb == StreamCallback(s, uidCtr + 1)
          IN  /\ Commit(register_callback(World, s, cb))
              /\ last' = [op |-> "register_callback", arg |-> s, body |-> NoEntry,
                          cb |-> cb]
    /\ UNCHANGED loop

UnregisterCallback ==
    /\ Running
    /\ \E s \in Free :
          /\ streams[s].callback # Noop
          /\ Commit(unregister_callback(World, s))
          /\ last' = Did("unregister_callback", s)
    /\ UNCHANGED loop

(* An application that works with timers and drives the reactor by poll() *)
Next ==
    \/ Tick
    \/ Execute
    \/ Schedule
    \/ Cancel
    \/ Poll

Spec == Init /\ [][Next]_vars

(* An application that also drives the reactor by flush(expires).  last    *)
(* keeps the deadline (arg) and what flush has returned (ret).              *)
Flush ==
    /\ Running
    /\ loop.pc = "idle"
    /\ \E expires \in Times, rdy \in {NoFd} \cup DOMAIN disk.registrations :
          LET w == flush(World, expires, rdy)
          IN  /\ Commit(w)
              /\ last' = [op |-> "flush", arg |-> expires, body |-> NoEntry,
                          ret |-> w.ret, entered |-> now,
                          pending |-> Cardinality(LiveUids(disk))]
    /\ UNCHANGED loop

NextFlush ==
    \/ Tick
    \/ Execute
    \/ Schedule
    \/ Cancel
    \/ Flush

SpecFlush == Init /\ [][NextFlush]_vars

(* An application that works with events and registered file descriptors, *)
(* and drives the reactor by poll()                                        *)
NextEvent ==
    \/ Tick
    \/ Execute
    \/ Schedule
    \/ Poll
    \/ MakeEvent
    \/ Register
    \/ Trigger
    \/ CancelEvent

SpecEvent == Init /\ [][NextEvent]_vars

(* An application that builds byte streams and reads them *)
NextStream ==
    \/ StreamTick
    \/ NewBlob
    \/ NewEmpty
    \/ NewZero
    \/ NewDry
    \/ NewQueue
    \/ NewFile
    \/ NewNice
    \/ NewPacer
    \/ NewSub
    \/ NewSwitch
    \/ NewAvid
    \/ NewFarewell
    \/ NewReservoir
    \/ NewNaiveEncoder
    \/ NewNaiveDecoder
    \/ Enqueue
    \/ Terminate
    \/ Switch
    \/ Read

SpecStream == Init /\ [][NextStream]_vars

(* An application that builds byte streams, registers callbacks on them,  *)
(* reads them and drives the reactor by poll()                             *)
NewWorld ==
    [now |-> 0, uidCtr |-> 0, disk |-> NewDisk, events |-> <<>>, streams |-> <<>>,
     panic |-> "none", fired |-> {}, canceled |-> {},
     diskRefs |-> 0, evRefs |-> {}, calls |-> 0, invoked |-> <<>>, ret |-> None]

(* What the application has built before it registers its callbacks: a    *)
(* nice stream over a blob or over a dry stream, a switch over a blob, a   *)
(* nice stream over a switch over a blob.                                  *)
Built ==
    {nice_new(blob_new(NewWorld, blob), 1, MaxBurst) : blob \in Blobs}
    \cup {nice_new(dry_new(NewWorld), 1, MaxBurst)}
    \cup {switch_new(blob_new(NewWorld, blob), 1) : blob \in Blobs}
    \cup {nice_new(switch_new(blob_new(NewWorld, blob), 1), 2, MaxBurst) : blob \in Blobs}

InitCallback ==
    \E w \in Built :
       /\ now = w.now
       /\ uidCtr = w.uidCtr
       /\ disk = w.disk
       /\ events = w.events
       /\ streams = w.streams
       /\ loop = IdleLoop
       /\ panic = w.panic
       /\ fired = w.fired
       /\ canceled = w.canceled
       /\ last = Did("new", w.uidCtr)

NextCallback ==
    \/ RegisterCallback
    \/ UnregisterCallback
    \/ Read
    \/ Poll

SpecCallback == InitCallback /\ [][NextCallback]_vars


(* An application that makes a queue, enqueues blob(A), then blob(B),    *)
(* then terminates the queue, and reads the queue at any point in between. *)
(* last keeps A and B, how far the application has got (stage), and the    *)
(* bytes its reads have returned so far (got).                              *)
Bytes == {TERMINATOR, ESCAPE, 2}
BlobsUpTo(n) == UNION {[1..k -> Bytes] : k \in 0..n}

InitQueue ==
    \E a, b \in BlobsUpTo(MaxBlobLen) :
       LET w == queue_new(NewWorld)
       IN  /\ now = w.now
           /\ uidCtr = w.uidCtr
           /\ disk = w.disk
           /\ events = w.events
           /\ streams = w.streams
           /\ loop = IdleLoop
           /\ panic = w.panic
           /\ fired = w.fired
           /\ canceled = w.canceled
           /\ last = [op |-> "new", arg |-> w.uidCtr, body |-> NoEntry, a |-> a, b |-> b,
                      stage |-> 0, got |-> <<>>, len |-> 0, ret |-> None]

EnqueueBlob ==
    /\ Running
    /\ last.stage \in {0, 1}
    /\ LET w1 == blob_new(World, IF last.stage = 0 THEN last.a ELSE last.b)
       IN  Commit(enqueue(w1, last.arg, w1.uidCtr))
    /\ last' = [last EXCEPT !.op = "enqueue", !.stage = @ + 1]
    /\ UNCHANGED loop

TerminateQueue ==
    /\ Running
    /\ last.stage = 2
    /\ Commit(terminate(World, last.arg))
    /\ last' = [last EXCEPT !.op = "terminate", !.stage = 3]
    /\ UNCHANGED loop

ReadQueue ==
    /\ Running
    /\ \E len \in 1..MaxRead :
          LET w == read(World, last.arg, len)
          IN  /\ Commit(w)
              /\ last' = [last EXCEPT !.op = "read", !.len = len, !.ret = w.ret,
                                      !.got = IF w.ret.tag = "ok" THEN @ \o w.ret.data
                                              ELSE @]
    /\ UNCHANGED loop

NextQueue ==
    \/ EnqueueBlob
    \/ TerminateQueue
    \/ ReadQueue

SpecQueue == InitQueue /\ [][NextQueue]_vars

(* An application that makes a blob, or a nice stream over a blob, puts  *)
(* sub(wrappee, begin, end, exhaust = false) over it, reads the sub stream *)
(* and, once that has returned Ok(0), reads the wrappee itself.  last      *)
(* keeps the blob, begin and end, the bytes the sub stream has returned    *)
(* (got) and whether it has returned Ok(0) (done), and the bytes the       *)
(* direct reads have returned (direct).                                     *)
SubInputs ==
    {[blob |-> blob, begin |-> b, end |-> e, nice |-> n] :
        blob \in BlobsUpTo(MaxSubLen), b \in 0..MaxSubLen, e \in 0..MaxSubLen,
        n \in BOOLEAN}

InitSub ==
    \E in \in SubInputs :
       LET w1 == blob_new(NewWorld, in.blob)
           w2 == IF in.nice THEN nice_new(w1, w1.uidCtr, MaxBurst) ELSE w1
           wrappee == IF in.nice THEN w1.uidCtr + 1 ELSE w1.uidCtr
           w == sub_new(w2, wrappee, in.begin, Some(in.end), FALSE)
           sub == w2.uidCtr + 1
       IN  /\ in.begin <= in.end
           /\ in.end <= Len(in.blob)
           /\ now = w.now
           /\ uidCtr = w.uidCtr
           /\ disk = w.disk
           /\ events = w.events
           /\ streams = w.streams
           /\ loop = IdleLoop
           /\ panic = w.panic
           /\ fired = w.fired
           /\ canceled = w.canceled
           /\ last = [op |-> "new", arg |-> sub, body |-> NoEntry, in |-> in,
                      wrappee |-> wrappee, got |-> <<>>, done |-> FALSE,
                      direct |-> <<>>, len |-> 0, ret |-> None]

ReadSub ==
    /\ Running
    /\ last.direct = <<>>
    /\ \E len \in 1..MaxRead :
          LET w == read(World, last.arg, len)
          IN  /\ Commit(w)
              /\ last' = [last EXCEPT !.op = "read", !.len = len, !.ret = w.ret,
                                      !.got = IF w.ret.tag = "ok" THEN @ \o w.ret.data
                                              ELSE @,
                                      !.done = @ \/ w.ret = Ok(<<>>)]
    /\ UNCHANGED loop

ReadWrappee ==
    /\ Running
    /\ last.done
    /\ \E len \in 1..MaxRead :
          LET w == read(World, last.wrappee, len)
          IN  /\ Commit(w)
              /\ last' = [last EXCEPT !.op = "read_wrappee", !.len = len, !.ret = w.ret,
                                      !.direct = IF w.ret.tag = "ok" THEN @ \o w.ret.data
                                                 ELSE @]
    /\ UNCHANGED loop

NextSub ==
    \/ ReadSub
    \/ ReadWrappee

SpecSub == InitSub /\ [][NextSub]_vars

(* An application that makes decoder(encoder(blob(B))) with the same     *)
(* terminator and escape on both sides, reads the decoder and, once that   *)
(* has returned Ok(0), reads the decoder's remainder().  Without an escape *)
(* byte B holds no terminator.  last keeps B and the escape, the bytes the *)
(* decoder has returned (got), whether it has returned Ok(0) (done), and   *)
(* the bytes the remainder has returned (rest).                             *)
CodecInputs ==
    {[blob |-> blob, escape |-> escape] :
        blob \in BlobsUpTo(MaxCodecLen), escape \in {None, Some(ESCAPE)}}

InitCodec ==
    \E in \in CodecInputs :
       LET w1 == blob_new(NewWorld, in.blob)
           w2 == naiveencoder_new(w1, w1.uidCtr, TERMINATOR, in.escape)
           encoder == w1.uidCtr + 1
           w == naivedecoder_new(w2, encoder, TERMINATOR, in.escape)
           decoder == w2.uidCtr + 1
       IN  /\ in.escape = None =>
                 \A i \in DOMAIN in.blob : in.blob[i] # TERMINATOR
           /\ now = w.now
           /\ uidCtr = w.uidCtr
           /\ disk = w.disk
           /\ events = w.events
           /\ streams = w.streams
           /\ loop = IdleLoop
           /\ panic = w.panic
           /\ fired = w.fired
           /\ canceled = w.canceled
           /\ last = [op |-> "new", arg |-> decoder, body |-> NoEntry, in |-> in,
                      got |-> <<>>, done |-> FALSE, rest |-> <<>>,
                      len |-> 0, ret |-> None]

ReadDecoder ==
    /\ Running
    /\ last.rest = <<>>
    /\ \E len \in 1..MaxRead :
          LET w == read(World, last.arg, len)
          IN  /\ Commit(w)
              /\ last' = [last EXCEPT !.op = "read", !.len = len, !.ret = w.ret,
                                      !.got = IF w.ret.tag = "ok" THEN @ \o w.ret.data
                                              ELSE @,
                                      !.done = @ \/ w.ret = Ok(<<>>)]
    /\ UNCHANGED loop

(* naivedecoder::Stream::remainder and a read of the stream it returns *)
ReadRemainder ==
    /\ Running
    /\ last.done
    /\ streams[last.arg].state = "Terminated"
    /\ \E len \in 1..MaxRead :
          LET w == read(World, streams[last.arg].remainder, len)
          IN  /\ Commit(w)
              /\ last' = [last EXCEPT !.op = "read_remainder", !.len = len,
                                      !.ret = w.ret,
                                      !.rest = IF w.ret.tag = "ok" THEN @ \o w.ret.data
                                               ELSE @]
    /\ UNCHANGED loop

NextCodec ==
    \/ ReadDecoder
    \/ ReadRemainder

SpecCodec == InitCodec /\ [][NextCodec]_vars

(* An application that reads a decoder over a file stream on a socket.    *)
(* The peer sends the bytes of last.in.blob (wire holds those still on    *)
(* their way) in pieces of any size and then closes.                       *)
InitDecode ==
    \E in \in CodecInputs :
       LET w1 == file_new(NewWorld, [no |-> 1, data |-> <<>>, eof |-> FALSE,
                                     err |-> "none"], TRUE)
           w == naivedecoder_new(w1, w1.uidCtr, TERMINATOR, in.escape)
       IN  /\ now = w.now
           /\ uidCtr = w.uidCtr
           /\ disk = w.disk
           /\ events = w.events
           /\ streams = w.streams
           /\ loop = IdleLoop
           /\ panic = w.panic
           /\ fired = w.fired
           /\ canceled = w.canceled
           /\ last = [op |-> "new", arg |-> w1.uidCtr + 1, body |-> NoEntry, in |-> in,
                      file |-> w1.uidCtr, wire |-> in.blob,
                      got |-> <<>>, done |-> FALSE, rest |-> <<>>,
                      len |-> 0, ret |-> None]

(* Bytes arrive at the socket; after the last of them, the end of stream *)
Arrive ==
    /\ Running
    /\ ~streams[last.file].fd.eof
    /\ \E k \in 0..Len(last.wire) :
          /\ k = 0 => last.wire = <<>>
          /\ streams' = [streams EXCEPT
                            ![last.file].fd.data = @ \o Take(last.wire, k),
                            ![last.file].fd.eof = (k = Len(last.wire))]
          /\ last' = [last EXCEPT !.op = "arrive", !.wire = Drop(@, k)]
    /\ UNCHANGED <<now, uidCtr, disk, events, loop, panic, fired, canceled>>

NextDecode ==
    \/ Arrive
    \/ ReadDecoder
    \/ ReadRemainder

SpecDecode == InitDecode /\ [][NextDecode]_vars

(* An application that makes a pacer over a zero stream or over a blob   *)
(* and reads it as time goes by.  last keeps the parameters of the pacer   *)
(* and, for every instant, the number of bytes the pacer has returned at   *)
(* that instant (sent).                                                     *)
PacerInputs ==
    {[byterate |-> r, min_burst |-> lo, max_burst |-> hi, blob |-> blob] :
        r \in 1..MaxRate, lo \in MinBurst..MaxBurst, hi \in MinBurst..MaxBurst,
        blob \in {None} \cup {Some(x) : x \in Blobs}}

InitPacer ==
    \E in \in PacerInputs :
       LET w1 == IF in.blob = None THEN zero_new(NewWorld)
                 ELSE blob_new(NewWorld, in.blob.val)
           w == pacer_new(w1, w1.uidCtr, in.byterate, in.min_burst, in.max_burst)
           pacer == w1.uidCtr + 1
       IN  /\ in.min_burst <= in.max_burst
           /\ now = w.now
           /\ uidCtr = w.uidCtr
           /\ disk = w.disk
           /\ events = w.events
           /\ streams = w.streams
           /\ loop = IdleLoop
           /\ panic = w.panic
           /\ fired = w.fired
           /\ canceled = w.canceled
           /\ last = [op |-> "new", arg |-> pacer, body |-> NoEntry, in |-> in,
                      sent |-> [t \in Times |-> 0], len |-> 0, ret |-> None]

(* The clock moves on *)
PacerTick ==
    /\ Running
    /\ now < MaxTime
    /\ now' = now + 1
    /\ last' = [last EXCEPT !.op = "tick"]
    /\ UNCHANGED <<uidCtr, disk, events, streams, loop, panic, fired, canceled>>

ReadPacer ==
    /\ Running
    /\ uidCtr < MaxPacerUid
    /\ \E len \in 1..MaxRead :
          LET w == read(World, last.arg, len)
          IN  /\ Commit(w)
              /\ last' = [last EXCEPT !.op = "read", !.len = len, !.ret = w.ret,
                                      !.sent[now] = IF w.ret.tag = "ok"
                                                    THEN @ + Len(w.ret.data) ELSE @]
    /\ UNCHANGED loop

NextPacer ==
    \/ PacerTick
    \/ ReadPacer

SpecPacer == InitPacer /\ [][NextPacer]_vars

-----------------------------------------------------------------------------
(* An application that puts one wrapper over a file stream on a socket     *)
(* whose peer has sent data and then reset the connection, and reads the   *)
(* wrapper.  last keeps the kind of the wrapper, the file stream, and      *)
(* whether a read of the wrapper has returned the error (seen).            *)
WrapKinds ==
    {"avid", "nice", "farewell", "switch", "sub", "queue", "reservoir",
     "naiveencoder", "naivedecoder"}

Wrap(kind, w, f) ==
    CASE kind = "avid" -> avid_new(w, f)
      [] kind = "nice" -> nice_new(w, f, MaxBurst)
      [] kind = "farewell" -> farewell_new(w, f)
      [] kind = "switch" -> switch_new(w, f)
      [] kind = "sub" -> sub_new(w, f, 0, Some(MaxWrapLen + 1), FALSE)
      [] kind = "queue" -> LET w1 == queue_new(w)
                           IN  terminate(enqueue(w1, w1.uidCtr, f), w1.uidCtr)
      [] kind = "reservoir" -> reservoir_new(w, f, MaxWrapLen)
      [] kind = "naiveencoder" -> naiveencoder_new(w, f, TERMINATOR, Some(ESCAPE))
      [] OTHER -> naivedecoder_new(w, f, TERMINATOR, Some(ESCAPE))

InitWrap ==
    \E kind \in WrapKinds, data \in BlobsUpTo(MaxWrapLen) :
       LET w1 == file_new(NewWorld, [no |-> 1, data |-> data, eof |-> TRUE,
                                     err |-> "ECONNRESET"], TRUE)
           w == Wrap(kind, w1, w1.uidCtr)
       IN  /\ now = w.now
           /\ uidCtr = w.uidCtr
           /\ disk = w.disk
           /\ events = w.events
           /\ streams = w.streams
           /\ loop = IdleLoop
           /\ panic = w.panic
           /\ fired = w.fired
           /\ canceled = w.canceled
           /\ last = [op |-> "new", arg |-> w1.uidCtr + 1,
                      file |-> w1.uidCtr, body |-> NoEntry, kind |-> kind,
                      got |-> <<>>, ret |-> None, seen |-> FALSE]

ReadWrap ==
    /\ Running
    /\ uidCtr < MaxWrapUid
    /\ \E len \in 1..MaxRead :
          LET w == read(World, last.arg, len)
          IN  /\ Commit(w)
              /\ last' = [last EXCEPT
                             !.op = "read", !.ret = w.ret,
                             !.got = IF w.ret.tag = "ok" THEN @ \o w.ret.data ELSE @,
                             !.seen = @ \/ w.ret = Err("ECONNRESET")]
    /\ UNCHANGED loop

PollWrap ==
    /\ Running
    /\ disk.immediate # <<>>
    /\ Commit(poll(World, NoFd))
    /\ last' = [last EXCEPT !.op = "poll"]
    /\ UNCHANGED loop

NextWrap ==
    \/ ReadWrap
    \/ PollWrap

SpecWrap == InitWrap /\ [][NextWrap]_vars

-----------------------------------------------------------------------------
(* An application that starts a TCP or a Unix connection and calls take()  *)
(* at any point.  last keeps the progress, and of the latest take() the    *)
(* state and the SO_ERROR it has met (before, so), what it has returned    *)
(* (ret) and whether it has changed anything (changed); handed counts the  *)
(* takes made in Triggered or Established.                                  *)
ConnectResults(family) ==
    IF family = "tcp" THEN {"ok", "EINPROGRESS", "ECONNREFUSED"}
    ELSE {"ok", "EAGAIN", "ENOENT"}

InitConnect ==
    \E family \in {"tcp", "unix"} :
       \E connected \in ConnectResults(family) :
          \E w \in {progress_new(NewWorld, family, connected, StreamCallback(1, 0))} :
              /\ now = w.now
              /\ uidCtr = w.uidCtr
              /\ disk = w.disk
              /\ events = w.events
              /\ streams = w.streams
              /\ loop = IdleLoop
              /\ panic = w.panic
              /\ fired = w.fired
              /\ canceled = w.canceled
              /\ last = [op |-> "new", arg |-> 1, body |-> NoEntry,
                         progress |-> IF w.ret.tag = "ok" THEN Some(w.ret.data) ELSE None,
                         before |-> "none", so |-> "none", ret |-> w.ret,
                         changed |-> FALSE, handed |-> 0, takes |-> 0]

Connecting == Running /\ last.progress # None

(* The kernel ends the connection attempt: the socket becomes ready and    *)
(* SO_ERROR holds the outcome.  A Unix socket whose connect() has returned *)
(* EAGAIN is not connecting and holds no error.                             *)
ConnectConcludes ==
    /\ Connecting
    /\ streams[last.progress.val].so_error \in {"EINPROGRESS", "EAGAIN"}
    /\ \E outcome \in IF streams[last.progress.val].so_error = "EINPROGRESS"
                       THEN {"0", "ECONNREFUSED"} ELSE {"0"} :
          streams' = [streams EXCEPT ![last.progress.val].so_error = outcome]
    /\ last' = [last EXCEPT !.op = "concluded"]
    /\ UNCHANGED <<now, uidCtr, disk, events, loop, panic, fired, canceled>>

(* The reactor runs the action registered for the ready socket *)
RunTrigger ==
    /\ Connecting
    /\ streams[last.progress.val].so_error \notin {"EINPROGRESS", "EAGAIN"}
    /\ SocketFd \in DOMAIN disk.registrations
    /\ events[disk.registrations[SocketFd]].action = Some(ProgressTrigger(last.progress.val))
    /\ Commit(RunAction(World, ProgressTrigger(last.progress.val)))
    /\ last' = [last EXCEPT !.op = "trigger"]
    /\ UNCHANGED loop

TakeProgress ==
    /\ Connecting
    /\ last.takes < MaxTakes
    /\ LET p == last.progress.val
           w == take(World, p)
       IN  /\ Commit(w)
           /\ last' = [last EXCEPT
                          !.op = "take", !.before = streams[p].state,
                          !.so = streams[p].so_error, !.ret = w.ret,
                          !.changed = w.streams # streams \/ w.disk # disk,
                          !.handed = IF streams[p].state \in {Triggered, Established}
                                     THEN @ + 1 ELSE @,
                          !.takes = @ + 1]
    /\ UNCHANGED loop

PollConnect ==
    /\ Running
    /\ disk.immediate # <<>>
    /\ Commit(poll(World, NoFd))
    /\ last' = [last EXCEPT !.op = "poll"]
    /\ UNCHANGED loop

NextConnect ==
    \/ ConnectConcludes
    \/ RunTrigger
    \/ TakeProgress
    \/ PollConnect

SpecConnect == InitConnect /\ [][NextConnect]_vars

-----------------------------------------------------------------------------
(* A Resolver, its worker thread and the reactor thread, which calls       *)
(* poll() at any point.  last keeps, of the latest poll(), the position of *)
(* the worker when it read the pipe (at) and what it has returned (ret);   *)
(* after counts the polls begun after the worker has closed the pipe,      *)
(* delivered the polls that have returned the worker's result.             *)
ResolverResults == {Ok(<<2>>), Ok(<<>>), Err("ENOENT")}

InitResolver ==
    LET w == resolver_new(NewWorld)
    IN  /\ now = w.now
        /\ uidCtr = w.uidCtr
        /\ disk = w.disk
        /\ events = w.events
        /\ streams = w.streams
        /\ loop = IdleLoop
        /\ panic = w.panic
        /\ fired = w.fired
        /\ canceled = w.canceled
        /\ last = [op |-> "new", arg |-> w.ret.data, body |-> NoEntry,
                   at |-> "none", ret |-> None, polls |-> 0, after |-> 0,
                   delivered |-> 0]

TheResolver == streams[last.arg]

(* name.to_socket_addrs() returns *)
WorkerResolves ==
    /\ TheResolver.worker.pc = "Resolving"
    /\ \E result \in ResolverResults :
          streams' = [streams EXCEPT ![last.arg].worker =
                                        [pc |-> "Resolved", result |-> result]]
    /\ UNCHANGED <<now, uidCtr, disk, events, loop, panic, fired, canceled, last>>

(* The closure returns: write_fd is dropped and the pipe is at its end *)
WorkerCloses ==
    /\ TheResolver.worker.pc = "Resolved"
    /\ streams' = [streams EXCEPT ![last.arg].worker.pc = "Closed",
                                  ![TheResolver.pipe].fd.eof = TRUE]
    /\ UNCHANGED <<now, uidCtr, disk, events, loop, panic, fired, canceled, last>>

(* The thread ends *)
WorkerExits ==
    /\ TheResolver.worker.pc = "Closed"
    /\ streams' = [streams EXCEPT ![last.arg].worker.pc = "Exited"]
    /\ UNCHANGED <<now, uidCtr, disk, events, loop, panic, fired, canceled, last>>

ReactorFree == Running /\ ~TheResolver.joining

PollResolver ==
    /\ ReactorFree
    /\ last.polls < MaxPolls
    /\ LET w == resolver_poll(World, last.arg)
           closed == TheResolver.worker.pc \in {"Closed", "Exited"}
       IN  /\ Commit(w)
           /\ last' = [last EXCEPT !.op = "poll", !.at = TheResolver.worker.pc,
                                   !.ret = w.ret, !.polls = @ + 1,
                                   !.after = IF closed THEN @ + 1 ELSE @]
    /\ UNCHANGED loop

JoinReturns ==
    /\ Running
    /\ TheResolver.joining
    /\ TheResolver.worker.pc = "Exited"
    /\ LET w == resolver_joined(World, last.arg)
       IN  /\ Commit(w)
           /\ last' = [last EXCEPT !.op = "joined", !.ret = w.ret,
                                   !.delivered = @ + 1]
    /\ UNCHANGED loop

ResolverRegisterCallback ==
    /\ ReactorFree
    /\ TheResolver.callback = Noop
    /\ streams' = [streams EXCEPT ![last.arg].callback = StreamCallback(last.arg, 0)]
    /\ last' = [last EXCEPT !.op = "register_callback"]
    /\ UNCHANGED <<now, uidCtr, disk, events, loop, panic, fired, canceled>>

PollDisk ==
    /\ ReactorFree
    /\ disk.immediate # <<>>
    /\ Commit(poll(World, NoFd))
    /\ last' = [last EXCEPT !.op = "disk_poll"]
    /\ UNCHANGED loop

WorkerThread ==
    \/ WorkerResolves
    \/ WorkerCloses
    \/ WorkerExits

NextResolver ==
    \/ WorkerThread
    \/ PollResolver
    \/ JoinReturns
    \/ ResolverRegisterCallback
    \/ PollDisk

SpecResolver == InitResolver /\ [][NextResolver]_vars

-----------------------------------------------------------------------------
(* An application that reads a terminated queue stream of a file stream on *)
(* a socket and a blob.  The socket holds data, and after it a pending     *)
(* ECONNRESET or nothing yet (EAGAIN).  last keeps, of the latest read,    *)
(* the pending_error it has met (before), what the socket and the blob     *)
(* held (fd, cursor), and what it has returned (ret); errors counts the    *)
(* reads that have returned ECONNRESET.                                     *)
InitLatch ==
    \E data \in BlobsUpTo(MaxWrapLen), err \in {"ECONNRESET", "none"} :
       LET w1 == file_new(NewWorld, [no |-> 1, data |-> data, eof |-> err # "none",
                                     err |-> err], TRUE)
           w2 == blob_new(w1, <<2>>)
           w3 == queue_new(w2)
           q == w3.uidCtr
           w == terminate(enqueue(enqueue(w3, q, w1.uidCtr), q, w2.uidCtr), q)
       IN  /\ now = w.now
           /\ uidCtr = w.uidCtr
           /\ disk = w.disk
           /\ events = w.events
           /\ streams = w.streams
           /\ loop = IdleLoop
           /\ panic = w.panic
           /\ fired = w.fired
           /\ canceled = w.canceled
           /\ last = [op |-> "new", arg |-> q, body |-> NoEntry, file |-> w1.uidCtr,
                      blob |-> w2.uidCtr, kind |-> "queue", got |-> <<>>, ret |-> None,
                      seen |-> FALSE, before |-> None, fd |-> w.streams[w1.uidCtr].fd,
                      cursor |-> 0, errors |-> 0]

ReadLatch ==
    /\ Running
    /\ uidCtr < MaxWrapUid
    /\ \E len \in 1..MaxRead :
          LET w == read(World, last.arg, len)
          IN  /\ Commit(w)
              /\ last' = [last EXCEPT
                             !.op = "read", !.ret = w.ret,
                             !.got = IF w.ret.tag = "ok" THEN @ \o w.ret.data ELSE @,
                             !.seen = @ \/ w.ret = Err("ECONNRESET"),
                             !.before = streams[last.arg].pending_error,
                             !.fd = streams[last.file].fd,
                             !.cursor = streams[last.blob].cursor,
                             !.errors = IF w.ret = Err("ECONNRESET") THEN @ + 1 ELSE @]
    /\ UNCHANGED loop

NextLatch ==
    \/ ReadLatch
    \/ PollWrap

SpecLatch == InitLatch /\ [][NextLatch]_vars

-----------------------------------------------------------------------------
(* An application that makes a queue stream and a Linger from it to a      *)
(* descriptor, enqueues the blobs A and B and terminates the queue, while  *)
(* the descriptor takes bytes now and then, the application prods the      *)
(* Linger and polls the Disk, and may let the Linger drift.  last keeps A  *)
(* and B, how far the queue has been fed (stage), the Linger, and the      *)
(* state drift() has found it in (drifted).                                 *)
(* The Linger is asynchronous with a callback registered, or synchronous   *)
(* without one.                                                             *)
LingerInputs ==
    {[a |-> a, b |-> b, sync |-> sync, callback |-> ~sync] :
        a \in {<<2>>, <<2, 1>>}, b \in {<<>>, <<0>>, <<0, 2>>}, sync \in BOOLEAN}

Scripts ==
    UNION {[1..n -> {-1} \cup 1..MaxWrite] : n \in 1..MaxScript}

InitLinger ==
    \E in \in LingerInputs :
       LET w1 == queue_new(NewWorld)
           l == w1.uidCtr + 1
           w2 == linger_new(w1, w1.uidCtr, 1, in.sync)
           w == IF in.callback
                THEN linger_register_callback(w2, l, StreamCallback(l, 0))
                ELSE w2
       IN  /\ now = w.now
           /\ uidCtr = w.uidCtr
           /\ disk = w.disk
           /\ events = w.events
           /\ streams = w.streams
           /\ loop = IdleLoop
           /\ panic = w.panic
           /\ fired = w.fired
           /\ canceled = w.canceled
           /\ last = [op |-> "new", arg |-> w1.uidCtr, linger |-> l, body |-> NoEntry,
                      a |-> in.a, b |-> in.b, stage |-> 0, drifted |-> "no",
                      ran |-> "none", again |-> FALSE, reads |-> FALSE,
                      aborted |-> None]

(* The application acts between two polls that have left nothing queued *)
Quiet == Running /\ disk.immediate = <<>>

(* The descriptor becomes writable *)
FdReady ==
    /\ Quiet
    /\ streams[last.linger].dest.script = <<>>
    /\ \E script \in Scripts :
          streams' = [streams EXCEPT ![last.linger].dest.script = script]
    /\ last' = [last EXCEPT !.op = "fd_ready"]
    /\ UNCHANGED <<now, uidCtr, disk, events, loop, panic, fired, canceled>>

(* prod() after what does not notify the Linger by itself *)
Prod ==
    /\ Quiet
    /\ last.op \in {"terminate", "fd_ready"}
    /\ uidCtr < MaxLingerUid
    /\ Commit(prod(World, last.linger))
    /\ last' = [last EXCEPT !.op = "prod"]
    /\ UNCHANGED loop

(* poll(); last keeps the kind of the action it has run (ran), whether a   *)
(* run of jockey has ever stopped in the middle of the buffer (again), and *)
(* whether this poll has read a stream (reads)                              *)
PollLinger ==
    /\ Running
    /\ \E rdy \in {NoFd} \cup DOMAIN disk.registrations :
          \E w \in {poll(World, rdy)} :
             /\ Commit(w)
             /\ last' = [last EXCEPT
                            !.op = "poll",
                            !.ran = IF disk.immediate # <<>>
                                    THEN Head(disk.immediate).action.val.tag ELSE "none",
                            !.again = @ \/ /\ 0 < w.streams[last.linger].cursor
                                            /\ w.streams[last.linger].cursor
                                                  < w.streams[last.linger].length,
                            !.reads = w.calls > 0]
    /\ UNCHANGED loop

Drift ==
    /\ Quiet
    /\ last.drifted = "no"
    /\ Commit(drift(World, last.linger))
    /\ last' = [last EXCEPT !.op = "drift", !.drifted = streams[last.linger].state.tag]
    /\ UNCHANGED loop

NextLinger ==
    \/ EnqueueBlob
    \/ TerminateQueue
    \/ FdReady
    \/ Prod
    \/ PollLinger
    \/ Drift

SpecLinger == InitLinger /\ [][NextLinger]_vars

(* The same application, which may also abort the Linger, at any point;   *)
(* last keeps the state abort() has found and the state it has returned    *)
(* (aborted).                                                               *)
Abort ==
    /\ Running
    /\ last.aborted = None
    /\ Commit(abort(World, last.linger))
    /\ last' = [last EXCEPT !.op = "abort",
                            !.aborted = Some([before |-> streams[last.linger].state,
                                              ret |-> abort(World, last.linger).ret])]
    /\ UNCHANGED loop

NextAbort ==
    \/ NextLinger
    \/ Abort

SpecAbort == InitLinger /\ [][NextAbort]_vars

(* An application that makes a Duplex on a descriptor and gives it a blob  *)
(* as egress, and another one later, while the reactor polls and the       *)
(* descriptor takes bytes now and then.  last keeps the Duplex, its switch *)
(* stream (arg) and its Linger, the egress streams set so far (egress),    *)
(* and whether set_egress has found the reactor with nothing queued        *)
(* (quiet: the Linger has met EAGAIN from the wrappee before).             *)
EgressBlobs == {<<2>>, <<2, 1>>, <<1, 0, 2>>}

InitEgress ==
    \E w \in {duplex_new(NewWorld, 1)} :
       /\ now = w.now
       /\ uidCtr = w.uidCtr
       /\ disk = w.disk
       /\ events = w.events
       /\ streams = w.streams
       /\ loop = IdleLoop
       /\ panic = w.panic
       /\ fired = w.fired
       /\ canceled = w.canceled
       /\ last = [op |-> "new", arg |-> w.streams[w.ret.data].eswitch.val,
                  linger |-> w.streams[w.ret.data].egress.val,
                  duplex |-> w.ret.data,
                  body |-> NoEntry, ran |-> "none", again |-> FALSE,
                  reads |-> FALSE, egress |-> <<>>, quiet |-> FALSE]

SetEgress ==
    /\ Running
    /\ Len(last.egress) < MaxEgress
    /\ \E blob \in EgressBlobs :
          LET w1 == blob_new(World, blob)
          IN  /\ Commit(set_egress(w1, last.duplex, w1.uidCtr))
              /\ last' = [last EXCEPT !.op = "set_egress",
                                      !.egress = Append(@, w1.uidCtr),
                                      !.quiet = disk.immediate = <<>>]
    /\ UNCHANGED loop

NextEgress ==
    \/ SetEgress
    \/ FdReady
    \/ PollLinger

(* A poll has an action to run *)
PollPending == Running /\ disk.immediate # <<>>

(* The loop keeps polling: weak fairness of the polls that run an action,  *)
(* WF_vars(PollPending /\ PollLinger), with its ENABLED written out (a     *)
(* poll that pops a timer changes the queue)                                *)
SpecEgress ==
    /\ InitEgress
    /\ [][NextEgress]_vars
    /\ \/ []<>(~PollPending)
       \/ []<><<PollPending /\ PollLinger>>_vars

-----------------------------------------------------------------------------
(* An application that puts a nice stream with max_burst = MaxBurst over a *)
(* queue that holds a blob, registers a callback, reads the nice stream at *)
(* any point and enqueues another blob once, while the loop polls.  last   *)
(* keeps the nice stream (arg), of the latest read its length, the counter *)
(* it has met (cursor), the reads made (calls) and the result (ret), the   *)
(* bytes returned since the latest error (since), the retries scheduled    *)
(* and not yet run (owed), and of the latest poll the kind of the action   *)
(* it has run (ran) and the callbacks it has called (invoked).             *)
NiceBlobs == {<<2>>, <<2, 1, 0>>}

(* The queued retries of nice stream s *)
Retries(d, s) ==
    Cardinality({i \in DOMAIN d.immediate : d.immediate[i].action = Some(NiceRetry(s))})

InitNice ==
    \E blob \in NiceBlobs :
       \E w1 \in {blob_new(queue_new(NewWorld), blob)} :
          \E w2 \in {enqueue(w1, 1, w1.uidCtr)} :
             \E w3 \in {nice_new(w2, 1, MaxBurst)} :
                \E w \in {register_callback(w3, w2.uidCtr + 1,
                                            StreamCallback(w2.uidCtr + 1, 0))} :
                   /\ now = w.now
                   /\ uidCtr = w.uidCtr
                   /\ disk = w.disk
                   /\ events = w.events
                   /\ streams = w.streams
                   /\ loop = IdleLoop
                   /\ panic = w.panic
                   /\ fired = w.fired
                   /\ canceled = w.canceled
                   /\ last = [op |-> "new", arg |-> w2.uidCtr + 1, body |-> NoEntry,
                              len |-> 0, cursor |-> 0, calls |-> 0, ret |-> None,
                              since |-> 0, owed |-> 0, more |-> FALSE,
                              ran |-> "none", invoked |-> <<>>]

ReadNice ==
    /\ Running
    /\ last.owed < MaxOwed
    /\ \E len \in 0..MaxRead :
          \E w \in {read(World, last.arg, len)} :
             /\ Commit(w)
             /\ last' = [last EXCEPT
                            !.op = "read", !.len = len,
                            !.cursor = streams[last.arg].cursor,
                            !.calls = w.calls, !.ret = w.ret,
                            !.since = IF w.ret.tag = "ok" THEN @ + Len(w.ret.data)
                                      ELSE 0,
                            !.owed = @ + Retries(w.disk, last.arg)
                                       - Retries(disk, last.arg)]
    /\ UNCHANGED loop

EnqueueMore ==
    /\ Running
    /\ ~last.more
    /\ \E w1 \in {blob_new(World, <<1, 2, 0>>)} :
          Commit(enqueue(w1, 1, w1.uidCtr))
    /\ last' = [last EXCEPT !.op = "enqueue", !.more = TRUE]
    /\ UNCHANGED loop

PollNice ==
    /\ Running
    /\ \E w \in {poll(World, NoFd)} :
          /\ Commit(w)
          /\ last' = [last EXCEPT
                         !.op = "poll",
                         !.ran = IF disk.immediate # <<>>
                                 THEN Head(disk.immediate).action.val.tag ELSE "none",
                         !.invoked = w.invoked,
                         !.owed = @ + Retries(w.disk, last.arg)
                                    - Retries(disk, last.arg)]
    /\ UNCHANGED loop

NextNice ==
    \/ ReadNice
    \/ EnqueueMore
    \/ PollNice

(* The loop keeps polling: weak fairness of the polls that run an action,  *)
(* WF_vars(PollPending /\ PollNice), with its ENABLED written out          *)
SpecNice ==
    /\ InitNice
    /\ [][NextNice]_vars
    /\ \/ []<>(~PollPending)
       \/ []<><<PollPending /\ PollNice>>_vars

-----------------------------------------------------------------------------
(* An application that registers, modifies and unregisters descriptors it  *)
(* opens and closes, and polls with a timer scheduled.  last.open and       *)
(* last.interest are the kernel's side: the descriptors the process holds   *)
(* and those the epoll instance watches.                                    *)

Kernel(op, fd, open, interest, w, failed) ==
    [op |-> op, arg |-> fd, body |-> NoEntry, open |-> open, interest |-> interest,
     ret |-> w.ret, before |-> disk.registrations, failed |-> failed]

InitCtl ==
    \E w \in {schedule(NewWorld, MaxTime, UserAction)} :
       /\ now = w.now
       /\ uidCtr = w.uidCtr
       /\ disk = w.disk
       /\ events = w.events
       /\ streams = w.streams
       /\ loop = IdleLoop
       /\ panic = w.panic
       /\ fired = w.fired
       /\ canceled = w.canceled
       /\ last = [op |-> "new", arg |-> NoFd, body |-> NoEntry, open |-> FDs,
                  interest |-> {}, ret |-> None, before |-> <<>>, failed |-> FALSE]

CloseFd ==
    /\ Running
    /\ \E fd \in last.open :
          last' = Kernel("close", fd, last.open \ {fd}, last.interest \ {fd},
                         World, FALSE)
    /\ UNCHANGED <<now, uidCtr, disk, events, streams, loop, panic, fired, canceled>>

OpenFd ==
    /\ Running
    /\ \E fd \in FDs \ last.open :
          last' = Kernel("open", fd, last.open \cup {fd}, last.interest, World, FALSE)
    /\ UNCHANGED <<now, uidCtr, disk, events, streams, loop, panic, fired, canceled>>

RegisterFd ==
    /\ Running
    /\ uidCtr < MaxCtlUid
    /\ \E fd \in FDs :
          \E blocking \in {nonblock(last.open, fd)} :
             \E status \in {epoll_ctl(last.open, last.interest, "EPOLL_CTL_ADD", fd)} :
                \E w \in {register_with_flags(World, fd, UserAction, blocking, status)} :
                   /\ Commit(w)
                   /\ last' = Kernel("register", fd, last.open,
                                     IF blocking = "ok" /\ status = "ok"
                                     THEN last.interest \cup {fd} ELSE last.interest,
                                     w, blocking # "ok" \/ status # "ok")
    /\ UNCHANGED loop

ModifyFd ==
    /\ Running
    /\ \E fd \in FDs :
          \E status \in {epoll_ctl(last.open, last.interest, "EPOLL_CTL_MOD", fd)} :
             \E w \in {modify_old_school(World, fd, status)} :
                /\ Commit(w)
                /\ last' = Kernel("modify", fd, last.open, last.interest, w,
                                  fd \notin DOMAIN disk.registrations \/ status # "ok")
    /\ UNCHANGED loop

UnregisterFd ==
    /\ Running
    /\ \E fd \in FDs :
          \E status \in {epoll_ctl(last.open, last.interest, "EPOLL_CTL_DEL", fd)} :
             \E w \in {unregister(World, fd, status)} :
                /\ Commit(w)
                /\ last' = Kernel("unregister", fd, last.open,
                                  IF fd \in DOMAIN disk.registrations
                                  THEN last.interest \ {fd} ELSE last.interest,
                                  w, fd \notin DOMAIN disk.registrations \/ status # "ok")
    /\ UNCHANGED loop

PollCtl ==
    /\ Running
    /\ \E rdy \in {Interrupted, NoFd} \cup last.interest :
          \E w \in {poll(World, rdy)} :
             /\ Commit(w)
             /\ last' = Kernel("poll", rdy, last.open, last.interest, w,
                               rdy = Interrupted)
    /\ UNCHANGED loop

NextCtl ==
    \/ CloseFd
    \/ OpenFd
    \/ RegisterFd
    \/ ModifyFd
    \/ UnregisterFd
    \/ PollCtl

SpecCtl == InitCtl /\ [][NextCtl]_vars

-----------------------------------------------------------------------------
(* An application that puts sub(wrappee, begin, end, exhaust) over a blob, *)
(* or over a nice stream over a blob, that may be shorter than begin or    *)
(* than end, and reads the sub stream.  A read that would never return is   *)
(* the panic "endless loop": the wrappee has answered Ok(0) inside a loop   *)
(* that only an error or progress ends.                                     *)
ShortInputs ==
    {[blob |-> blob, begin |-> b, end |-> e, nice |-> n, exhaust |-> x] :
        blob \in BlobsUpTo(MaxSubLen), b \in 0..MaxSubLen, e \in 0..MaxSubLen,
        n \in BOOLEAN, x \in BOOLEAN}

InitShort ==
    \E in \in ShortInputs :
       \E w1 \in {blob_new(NewWorld, in.blob)} :
          \E w2 \in {IF in.nice THEN nice_new(w1, w1.uidCtr, MaxBurst) ELSE w1} :
             \E w \in {sub_new(w2, IF in.nice THEN w1.uidCtr + 1 ELSE w1.uidCtr,
                                in.begin, Some(in.end), in.exhaust)} :
                /\ in.begin <= in.end
                /\ now = w.now
                /\ uidCtr = w.uidCtr
                /\ disk = w.disk
                /\ events = w.events
                /\ streams = w.streams
                /\ loop = IdleLoop
                /\ panic = w.panic
                /\ fired = w.fired
                /\ canceled = w.canceled
                /\ last = [op |-> "new", arg |-> w2.uidCtr + 1, body |-> NoEntry,
                           in |-> in,
                           wrappee |-> IF in.nice THEN w1.uidCtr + 1 ELSE w1.uidCtr,
                           got |-> <<>>, done |-> FALSE,
                           direct |-> <<>>, len |-> 0, ret |-> None]

SpecShort == InitShort /\ [][NextSub]_vars

-----------------------------------------------------------------------------
(* main_loop *)

MainLoop ==
    /\ Running
    /\ loop.pc = "idle"
    /\ IF disk.wakeup_fd
       THEN /\ panic' = "assertion failed"
            /\ UNCHANGED loop
       ELSE /\ loop' = [IdleLoop EXCEPT !.pc = "take", !.countdown = MAX_IO_STARVATION]
            /\ UNCHANGED panic
    /\ last' = Did("main_loop", 0)
    /\ UNCHANGED <<now, uidCtr, disk, events, streams, fired, canceled>>

(* One turn of the while loop of take_immediate_action, up to the point   *)
(* where the timer's action is running; the turn that leaves the loop goes *)
(* on to the quit test of do_loop.                                          *)
LoopTake ==
    /\ Running
    /\ loop.pc = "take"
    /\ IF DrainWhile(loop.countdown)
       THEN LET p == pop_timer(World)
            IN  CASE p.popped = "TimerExpired" ->
                       LET w1 == Invoke(p.w, p.body)
                       IN  /\ Commit(w1)
                           /\ loop' = [loop EXCEPT
                                          !.pc = IF w1.panic # "none" THEN "panicked"
                                                 ELSE "action",
                                          !.ran = @ + 1]
                  [] p.popped = "NextTimerExpiry" ->
                       /\ Commit(p.w)
                       /\ loop' = AfterTake(p.w, Some(p.body.expires))
                  [] p.popped = "InfiniteWait" ->
                       /\ Commit(p.w)
                       /\ loop' = AfterTake(p.w, None)
                  [] OTHER ->
                       /\ Commit(p.w)
                       /\ loop' = [loop EXCEPT !.pc = "panicked"]
       ELSE /\ Commit(World)
            /\ loop' = AfterTake(World, Some(disk.recent))
    /\ last' = [op |-> "take", arg |-> 0,
                body |-> IF DrainWhile(loop.countdown)
                            /\ pop_timer(World).popped = "TimerExpired"
                         THEN Entry(pop_timer(World).body)
                         ELSE NoEntry]

(* The timer's action returns: countdown -= 1 *)
LoopActionReturn ==
    /\ Running
    /\ loop.pc = "action"
    /\ loop' = [loop EXCEPT !.pc = "take", !.countdown = @ - 1]
    /\ last' = Did("return", 0)
    /\ UNCHANGED <<now, uidCtr, disk, events, streams, panic, fired, canceled>>

(* Duration::scale: a positive duration is rounded up, the others are    *)
(* divided as Rust divides, towards zero                                   *)
scale(duration, factor) ==
    IF duration > 0 THEN (duration - 1) \div factor + 1
    ELSE -((-duration) \div factor)

milliseconds_remainingRoundsDown(w, until, unit, max) ==
    LET duration == until - w.now
        ms == duration \div unit
    IN  IF duration <= 0 THEN 0 ELSE IF ms > max THEN max ELSE ms

(* Disk::milliseconds_remaining with cap = None.  unit is the number of   *)
(* ticks of the clock in a millisecond and max the largest value of the    *)
(* result's type.                                                           *)
milliseconds_remaining(w, until, unit, max) ==
    LET duration == until - w.now
        ms == scale(duration, unit)
    IN  IF duration <= 0 THEN 0 ELSE IF ms > max THEN max ELSE ms

(* do_loop's timeout where the clock ticks in milliseconds: -1 waits      *)
(* without limit                                                           *)
dur_ms(w, result) ==
    IF result.tag = "some"
    THEN milliseconds_remaining(w, result.val, 1, I32_MAX)
    ELSE -1

(* The poller: epoll_wait returns at time t with the ready fds, and the   *)
(* loop triggers the Event of each; then the next iteration begins.        *)
LoopWait ==
    /\ Running
    /\ loop.pc = "wait"
    /\ \E t \in now..MaxTime, ready \in epoll_wait(DOMAIN disk.registrations, MAX_IO_BURST) :
          LET w0 == IF loop.result.tag = "some" THEN disk_now(World) ELSE World
              dur == dur_ms(w0, loop.result)
              w1 == dispatch_all([w0 EXCEPT !.now = t], ready)
          IN  /\ IF ready = <<>> THEN dur >= 0 /\ t = now + dur
                 ELSE dur < 0 \/ t <= now + dur
              /\ Commit(w1)
              /\ loop' = [pc |-> IF w1.panic # "none" THEN "panicked"
                                 ELSE IF w1.disk.wakeup_fd THEN "drain" ELSE "take",
                          countdown |-> MAX_IO_STARVATION,
                          result |-> None,
                          ran |-> 0,
                          dispatched |-> Len(ready)]
    /\ last' = Did("wait", 0)

(* An application run by main_loop: it sets up timers and registrations,  *)
(* starts the loop, and goes on from inside the timer actions.             *)
NextLoop ==
    \/ Execute
    \/ Schedule
    \/ Register
    \/ Quit
    \/ MainLoop
    \/ LoopTake
    \/ LoopActionReturn
    \/ LoopWait

SpecLoop == Init /\ [][NextLoop]_vars

-----------------------------------------------------------------------------
(* The timeout the loop hands to the poller, with a clock that ticks       *)
(* TicksPerMs times in a millisecond and a timeout type that holds MsMax    *)
(* at most.  The application schedules timers before it starts the loop     *)
(* and enqueues actions before and inside the loop; no fd is registered, so *)
(* the poller returns when the timeout has passed.                          *)

ScheduleFine ==
    /\ Running
    /\ loop.pc = "idle"
    /\ Cardinality(disk.timers) < MaxFineTimers
    /\ \E expires \in 0..MaxExpiry :
          Commit(schedule(World, expires, UserAction))
    /\ last' = Did("schedule", uidCtr + 1)
    /\ UNCHANGED loop

LoopSleep ==
    /\ Running
    /\ loop.pc = "wait"
    /\ \E w0 \in {IF loop.result.tag = "some" THEN disk_now(World) ELSE World} :
          \E ms \in {IF loop.result.tag = "some"
                      THEN milliseconds_remaining(w0, loop.result.val, TicksPerMs, MsMax)
                      ELSE -1} :
             /\ Commit([w0 EXCEPT !.now = IF ms < 0 THEN @ ELSE @ + ms * TicksPerMs])
             /\ last' = Did("wait", ms)
             /\ loop' = [pc |-> IF ms < 0 THEN "blocked" ELSE "take",
                         countdown |-> MAX_IO_STARVATION, result |-> None,
                         ran |-> 0, dispatched |-> 0]

NextTimeout ==
    \/ Execute
    \/ ScheduleFine
    \/ MainLoop
    \/ LoopTake
    \/ LoopActionReturn
    \/ LoopSleep

SpecTimeout == Init /\ [][NextTimeout]_vars

-----------------------------------------------------------------------------
(* protected_loop: the loop with a wake-up pipe, and the calls another     *)
(* thread makes while it runs                                               *)

(* pipe_fds[0] of prepare_protected_loop: a descriptor pipe2 has just made, *)
(* which no registration can hold                                           *)
PipeReadFd == 3

(* The pipe is made by pipe2(O_CLOEXEC): both ends block.  The read end is  *)
(* handed to drain only; it is not registered with the poller.              *)
prepare_protected_loop(w) ==
    [w EXCEPT !.disk.wakeup_fd = TRUE, !.disk.pipe = 0]

finish_protected_loop(w) ==
    LET w1 == unregister(w, PipeReadFd, "ok")
    IN  IF w1.panic # "none" \/ w1.ret.tag = "err" THEN w1
        ELSE IF ~w1.disk.wakeup_fd THEN Panic(w1, "wakeup_fd unset")
        ELSE [w1 EXCEPT !.disk.wakeup_fd = FALSE, !.disk.pipe = 0]

(* protected_loop up to the first statement of do_loop; pipe2 may fail *)
ProtectedLoop ==
    /\ Running
    /\ loop.pc = "idle"
    /\ IF disk.wakeup_fd
       THEN /\ Commit(Panic(World, "assertion failed"))
            /\ UNCHANGED loop
       ELSE \E made \in BOOLEAN :
               IF made
               THEN /\ Commit(prepare_protected_loop(World))
                    /\ loop' = [IdleLoop EXCEPT !.pc = "drain"]
               ELSE /\ Commit(World)
                    /\ loop' = [IdleLoop EXCEPT !.pc = "failed"]
    /\ last' = Did("protected_loop", 0)

(* One turn of the loop of drain(read_fd): read returns the bytes of the   *)
(* pipe, and the next read follows.  On an empty pipe read blocks (the     *)
(* descriptor is blocking and the write end is open), so there is no step. *)
DoLoopDrain ==
    /\ Running
    /\ loop.pc = "drain"
    /\ disk.pipe > 0
    /\ Commit([World EXCEPT !.disk.pipe = 0])
    /\ last' = Did("drain", 0)
    /\ UNCHANGED loop

(* do_loop has returned Ok(()): main_loop returns it, protected_loop goes  *)
(* through finish_protected_loop first                                      *)
LoopReturn ==
    /\ Running
    /\ loop.pc = "done"
    /\ LET w == IF disk.wakeup_fd THEN finish_protected_loop(World) ELSE World
       IN  /\ Commit(w)
           /\ loop' = [loop EXCEPT !.pc = IF w.panic # "none" THEN "panicked"
                                          ELSE "returned"]
    /\ last' = Did("loop_return", 0)

InLoop == loop.pc \in {"drain", "take", "action", "wait", "done"}

(* Another thread calls wake_up while protected_loop runs *)
OtherWakeUp ==
    /\ Running
    /\ InLoop
    /\ disk.wakeup_fd
    /\ Commit(wake_up(World))
    /\ last' = Did("other_wake_up", 0)
    /\ UNCHANGED loop

(* Another thread calls quit while protected_loop runs *)
OtherQuit ==
    /\ Running
    /\ InLoop
    /\ disk.wakeup_fd
    /\ ~disk.quit
    /\ Commit(quit(World))
    /\ last' = Did("other_quit", 0)
    /\ UNCHANGED loop

LoopThread ==
    \/ DoLoopDrain
    \/ LoopTake
    \/ LoopActionReturn
    \/ LoopWait
    \/ LoopReturn

NextProtected ==
    \/ Execute
    \/ Schedule
    \/ Quit
    \/ MainLoop
    \/ ProtectedLoop
    \/ OtherWakeUp
    \/ OtherQuit
    \/ LoopThread

(* The loop thread runs whenever it is not blocked in a system call *)
SpecProtected == Init /\ [][NextProtected]_vars /\ WF_vars(LoopThread)

-----------------------------------------------------------------------------
(* Properties of the timers *)

(* The order of the keys (expiry, UID), stated on its own *)
KeyBefore(a, b) ==
    a.expires < b.expires \/ (a.expires = b.expires /\ a.uid < b.uid)

(* The UIDs of the timers whose action is invoked by the step *)
Firing == fired' \ fired

(* The position in the immediate FIFO of the timer with this UID *)
PlaceOf(q, uid) == CHOOSE i \in DOMAIN q : q[i].uid = uid

(* C1: of two Scheduled timers that are in the timer map together, the one *)
(* with the smaller (expiry, UID) key has its action invoked strictly      *)
(* before the other: no step invokes T2 while T1 is still scheduled, and   *)
(* no step invokes two actions.                                             *)
C1_ScheduledInKeyOrder ==
    [][/\ \A t1, t2 \in disk.timers :
             KeyBefore(t1, t2) => t2.uid \notin Firing
       /\ Cardinality(Firing) <= 1]_vars

(* T1 was scheduled after T2 (larger UID) with an earlier expiry, and has  *)
(* just fired while T2 is still in the map.                                 *)
C1_Witness ==
    /\ last.op = "poll"
    /\ last.body.kind = "Scheduled"
    /\ last.body.uid \in fired
    /\ \E t2 \in disk.timers :
          KeyBefore(last.body, t2) /\ t2.uid < last.body.uid

(* C2: the immediate FIFO holds its timers in the order of the execute()   *)
(* calls; a step that invokes an immediate action invokes the first one    *)
(* that is not canceled, and no Scheduled timer has a smaller key than it; *)
(* a step that invokes a Scheduled timer's action leaves a FIFO that is    *)
(* empty (and the timer has expired) or whose front has a larger key.      *)
C2_FifoAndTimerPrecedence ==
    [][/\ \A i, j \in DOMAIN disk.immediate' :
             i < j => disk.immediate'[i].uid < disk.immediate'[j].uid
       /\ Firing # {} =>
             LET f == last'.body
             IN  /\ Firing = {f.uid}
                 /\ IF f.kind = "Pending"
                    THEN /\ f.uid \in Uids(ImmediateBodies(disk))
                         /\ LET i == PlaceOf(disk.immediate, f.uid)
                            IN  /\ Entry(disk.immediate[i]) = f
                                /\ \A j \in 1..(i - 1) :
                                      disk.immediate[j].kind = "Canceled"
                                /\ disk.immediate' =
                                      SubSeq(disk.immediate, i + 1, Len(disk.immediate))
                         /\ \A t \in disk.timers : ~KeyBefore(t, f)
                         /\ disk.timers' = disk.timers
                    ELSE /\ f \in {Entry(t) : t \in disk.timers}
                         /\ IF disk.immediate' = <<>>
                            THEN f.expires <= now
                            ELSE KeyBefore(f, Head(disk.immediate'))]_vars

(* A Scheduled timer has just run ahead of the immediate action at the     *)
(* front of the FIFO, which was queued before the timer was scheduled.      *)
C2_Witness ==
    /\ last.op = "poll"
    /\ last.body.kind = "Scheduled"
    /\ last.body.uid \in fired
    /\ disk.immediate # <<>>
    /\ Head(disk.immediate).kind = "Pending"
    /\ Head(disk.immediate).uid < last.body.uid

(* C3: no timer is twice in the immediate FIFO or in the timer map, or in  *)
(* both; a timer that has fired is in neither; a canceled timer is not in  *)
(* the map, and in the FIFO only as a tombstone.                            *)
C3_OnePlacePerTimer ==
    /\ \A i, j \in DOMAIN disk.immediate :
          disk.immediate[i].uid = disk.immediate[j].uid => i = j
    /\ \A t1, t2 \in disk.timers : t1.uid = t2.uid => t1 = t2
    /\ Uids(ImmediateBodies(disk)) \cap Uids(disk.timers) = {}
    /\ fired \cap LiveUids(disk) = {}
    /\ canceled \cap Uids(disk.timers) = {}
    /\ \A b \in ImmediateBodies(disk) :
          /\ b.kind \in {"Pending", "Canceled"}
          /\ b.uid \in canceled <=> b.kind = "Canceled"
    /\ \A t \in disk.timers : t.kind = "Scheduled"

(* Timers are queued in both places, one has fired and a Scheduled one has *)
(* just been canceled.                                                      *)
C3_Witness ==
    /\ last.op = "cancel"
    /\ last.body.kind = "Scheduled"
    /\ last.arg \in canceled
    /\ fired # {}
    /\ disk.immediate # <<>>
    /\ disk.timers # {}

(* C4: the action of a canceled timer is never invoked; cancel() leaves a  *)
(* Pending timer in the FIFO as a tombstone and takes a Scheduled timer    *)
(* out of the map, and touches no other timer; a second cancel() changes   *)
(* nothing; pop drops from the FIFO only tombstones and the timer it       *)
(* fires.                                                                   *)
C4_CancelIsFinal ==
    [][/\ canceled' \cap fired' = {}
       /\ last'.op = "cancel" =>
             LET uid == last'.arg
             IN  /\ fired' = fired
                 /\ uid \in canceled \/ uid \notin LiveUids(disk) => disk' = disk
                 /\ uid \in Uids(disk.timers) =>
                       /\ disk'.timers = {t \in disk.timers : t.uid # uid}
                       /\ disk'.immediate = disk.immediate
                       /\ uid \in canceled'
                 /\ uid \in Uids(ImmediateBodies(disk)) =>
                       /\ disk'.timers = disk.timers
                       /\ Len(disk'.immediate) = Len(disk.immediate)
                       /\ \A i \in DOMAIN disk.immediate :
                             IF disk.immediate[i].uid = uid
                             THEN disk'.immediate[i] =
                                     [disk.immediate[i] EXCEPT !.kind = "Canceled"]
                             ELSE disk'.immediate[i] = disk.immediate[i]
                       /\ uid \in canceled'
       /\ last'.op = "poll" =>
             \A b \in ImmediateBodies(disk) \ ImmediateBodies(disk') :
                b.kind = "Canceled" \/ b.uid \in Firing]_vars

(* execute(A); execute(B); B.cancel(); poll(): A has just fired, B is a    *)
(* tombstone in the FIFO and has not fired.                                 *)
C4_Witness ==
    /\ last.op = "poll"
    /\ last.body.kind = "Pending"
    /\ last.body.uid \in fired
    /\ disk.immediate # <<>>
    /\ LET b == Head(disk.immediate)
       IN  /\ b.kind = "Canceled"
           /\ b.uid \in canceled
           /\ b.uid = last.body.uid + 1
           /\ b.uid \notin fired

-----------------------------------------------------------------------------
(* Properties of the loop *)

-----------------------------------------------------------------------------
(* Properties of the events *)

(* The queued immediate actions whose invocation calls perf of Event e *)
Deliveries(d, e) ==
    {i \in DOMAIN d.immediate : d.immediate[i].action = Some(PerfAction(e))}

(* C6: after trigger() the Event is Triggered, and whenever an Event is    *)
(* Triggered exactly one queued immediate action calls its perf.            *)
C6_TriggeredHasOneDelivery ==
    \A e \in DOMAIN events :
       /\ last.op = "trigger" /\ last.arg = e => events[e].state = "Triggered"
       /\ events[e].state = "Triggered" =>
             Cardinality(Deliveries(disk, e)) = 1

(* C7: after a trigger() call, the first or a later one, exactly one       *)
(* delivery of the Event is queued; a trigger() in state Triggered changes *)
(* nothing.                                                                 *)
C7_TriggersCollapse ==
    [][last'.op = "trigger" =>
          LET e == last'.arg
          IN  /\ Cardinality(Deliveries(disk', e)) = 1
              /\ events[e].state = "Triggered" =>
                    disk' = disk /\ events' = events]_vars

(* C8: trigger(); cancel(); then the delivery runs: the program is still   *)
(* running, the Event is Idle and its action has not been invoked; and     *)
(* cancel() on an Idle Event changes nothing.                               *)
C8_CancelNullifiesDelivery ==
    \A e \in DOMAIN events :
       events[e].state = "Idle" /\ disk.immediate = <<>> /\ disk.timers = {} =>
          LET w1 == trigger(World, e)
              w2 == cancel_event(w1, e)
              w3 == poll(w2, NoFd)
          IN  /\ cancel_event(World, e) = World
              /\ w3.panic = "none"
              /\ w3.events[e].state = "Idle"
              /\ w3.events[e].invoked = events[e].invoked

(* C9: trigger(); delivery; trigger(); delivery: after each delivery the   *)
(* Event is Idle and its action has been invoked once more.                 *)
C9_EveryCycleInvokes ==
    \A e \in DOMAIN events :
       events[e].state = "Idle" /\ disk.immediate = <<>> /\ disk.timers = {} =>
          LET w1 == poll(trigger(World, e), NoFd)
              w2 == poll(trigger(w1, e), NoFd)
          IN  /\ w1.panic = "none"
              /\ w1.events[e].state = "Idle"
              /\ w1.events[e].invoked = events[e].invoked + 1
              /\ w2.panic = "none"
              /\ w2.events[e].state = "Idle"
              /\ w2.events[e].invoked = events[e].invoked + 2

(* An Event has been made and trigger() has been called on it *)
EventTriggerCalled ==
    /\ last.op = "trigger"
    /\ last.arg \in DOMAIN events
    /\ panic # "none"

-----------------------------------------------------------------------------
(* Properties of the byte streams *)

ZeroLengthRead == last'.op = "read" /\ last'.len = 0

(* C10: read() with a zero-length buffer returns Ok(0), whatever the kind  *)
(* and the state of the stream: it makes no read of a wrappee (the read of *)
(* the stream itself is the only one made), changes no stream, schedules   *)
(* no timer, takes no UID and leaves the reactor as it was.                *)
C10_ZeroLengthReadIsTrivial ==
    [][ZeroLengthRead =>
          /\ last'.ret = Ok(<<>>)
          /\ last'.calls = 1
          /\ UNCHANGED <<now, uidCtr, disk, events, streams, panic>>]_vars

(* A zero-length read has been made of a queue with a latched error *)
C10_Witness ==
    /\ last.op = "read"
    /\ last.len = 0
    /\ last.ret = Ok(<<>>)
    /\ streams[last.arg].kind = "queue"
    /\ streams[last.arg].pending_error # None

(* Zero-length reads of a nice stream over its burst, of a pacer without *)
(* quota and of a stream at its end                                       *)
ZeroLengthReadOverBurst ==
    /\ last.op = "read"
    /\ last.len = 0
    /\ streams[last.arg].kind = "nice"
    /\ streams[last.arg].cursor >= streams[last.arg].max_burst

ZeroLengthReadWithoutQuota ==
    /\ last.op = "read"
    /\ last.len = 0
    /\ streams[last.arg].kind = "pacer"
    /\ streams[last.arg].quota < streams[last.arg].min_burst

ZeroLengthReadAtEof ==
    /\ last.op = "read"
    /\ last.len = 0
    /\ streams[last.arg].kind = "blob"
    /\ streams[last.arg].cursor = Len(streams[last.arg].blob)

-----------------------------------------------------------------------------
(* Properties of the stream callbacks *)

(* The action of the timer that the step has popped and run *)
PoppedAction ==
    IF last'.op = "poll" /\ last'.body.uid # 0
    THEN Body(last'.body.uid).action.val
    ELSE Noop

(* The step notifies stream s: it calls invoke_callback of s *)
Notifies(s) == PoppedAction \in {Notify(s), FileNotify(s), PacerRetry(s)}

(* The timers the step has queued *)
NewTimers == {t \in ImmediateBodies(disk') \cup disk'.timers : t.uid > uidCtr}

(* The queued immediate invocations of callback cb *)
Queued(d, cb) ==
    Cardinality({i \in DOMAIN d.immediate : d.immediate[i].action = Some(cb)})

(* C11: register_callback(cb) on a stream of a live reactor appends one    *)
(* immediate timer with action cb to the FIFO and nothing else, and makes  *)
(* cb, a closure that was not the callback before, the callback of the     *)
(* stream and of no other; a step that notifies a stream queues one timer, *)
(* whose action is the callback the stream has now; a nice stream's retry  *)
(* calls the callback the stream has now; and no step queues a callback    *)
(* that is not the current callback of its stream.                          *)
C11_RegisterCallbackInstalls ==
    [][/\ last'.op = "register_callback" =>
             LET s == last'.arg
                 cb == last'.cb
             IN  /\ disk.alive
                 /\ disk'.immediate =
                       Append(disk.immediate,
                              [uid |-> uidCtr + 1, expires |-> disk.recent,
                               kind |-> "Pending", action |-> Some(cb)])
                 /\ disk'.timers = disk.timers
                 /\ streams[s].callback # cb
                 /\ streams' = [streams EXCEPT ![s].callback = cb]
       /\ \A s \in DOMAIN streams :
             /\ Notifies(s) =>
                   /\ Cardinality(NewTimers) = 1
                   /\ \A t \in NewTimers : t.action = Some(streams[s].callback)
                   /\ streams' = streams
             /\ PoppedAction = NiceRetry(s) /\ streams[s].callback.tag = "callback" =>
                   /\ last'.invoked = <<streams[s].callback>>
                   /\ NewTimers = {}
       /\ \A t \in NewTimers :
             t.action.val.tag = "callback" =>
                t.action.val = streams'[t.action.val.stream].callback]_vars

(* Two callbacks have been registered on a stream, one after the other,    *)
(* and a notification made after that has queued the second one: the       *)
(* initial invocation of the first is still queued, behind it the initial  *)
(* invocation of the second, and last the invocation the notification has  *)
(* queued.                                                                  *)
C11_Witness ==
    /\ last.op = "poll"
    /\ \E i, j \in DOMAIN disk.immediate :
          LET old == disk.immediate[i].action.val
              new == disk.immediate[j].action.val
          IN  /\ i < j
              /\ old.tag = "callback"
              /\ new.tag = "callback"
              /\ old.stream = new.stream
              /\ old.id < new.id
              /\ new = streams[new.stream].callback
              /\ disk.immediate[j].uid > new.id
              /\ disk.immediate[j].uid = uidCtr

(* C12 as claimed: the notifications that reach a stream while its         *)
(* callback is queued coalesce: the callback of a stream is queued at most *)
(* once.                                                                    *)
C12_NotificationsCoalesce ==
    \A s \in DOMAIN streams :
       streams[s].callback.tag = "callback" => Queued(disk, streams[s].callback) <= 1

(* The callbacks the application has registered that are queued or current *)
Callbacks(d, ss) ==
    {cb \in {d.immediate[i].action.val : i \in DOMAIN d.immediate}
            \cup {ss[s].callback : s \in DOMAIN ss} : cb.tag = "callback"}

One(P) == IF P THEN 1 ELSE 0

(* C12 as the code has it: nothing coalesces.  Every notification of a     *)
(* stream queues one more invocation of its callback, whether or not one   *)
(* is queued already, every queued invocation calls the callback once, and *)
(* nothing else queues or calls it: for every callback the count of its    *)
(* queued invocations grows by one with its registration and with every    *)
(* notification of its stream and shrinks by one with every call made from *)
(* the queue.                                                               *)
C12_OneInvocationPerNotification ==
    [][\A cb \in Callbacks(disk, streams) \cup Callbacks(disk', streams') :
          LET s == cb.stream
              popped == PoppedAction = cb
              retried == PoppedAction = NiceRetry(s) /\ streams[s].callback = cb
          IN  /\ Queued(disk', cb) =
                    Queued(disk, cb)
                    + One(last'.op = "register_callback" /\ last'.cb = cb)
                    + One(Notifies(s) /\ streams[s].callback = cb)
                    - One(popped)
              /\ last'.op = "poll" =>
                    Len(SelectSeq(last'.invoked, LAMBDA x : x = cb)) =
                       One(popped) + One(retried)]_vars

(* A stream was notified twice while its callback was queued: the callback *)
(* has just been called from the queue a second time, and a third          *)
(* invocation of it is still queued.                                        *)
C12_Witness ==
    /\ last.op = "poll"
    /\ Len(last.invoked) = 1
    /\ LET cb == last.invoked[1]
       IN  /\ cb = streams[cb.stream].callback
           /\ Queued(disk, cb) >= 1
           /\ Cardinality({u \in fired : u >= cb.id}) >= 2

-----------------------------------------------------------------------------
(* Properties of the queue stream *)

IsPrefix(p, q) == Len(p) <= Len(q) /\ SubSeq(q, 1, Len(p)) = p

(* The bytes of the blobs enqueued so far *)
Enqueued(l) ==
    CASE l.stage = 0 -> <<>>
      [] l.stage = 1 -> l.a
      [] OTHER -> l.a \o l.b

(* C13: whatever the blobs A and B and the sizes of the read buffers, a    *)
(* read of the queue returns the next bytes of A ++ B (at least one, at    *)
(* most the buffer's size) as long as bytes enqueued are unread; once all  *)
(* of A ++ B has been read from the terminated queue every read returns    *)
(* Ok(0); a queue with nothing to read that is not terminated returns     *)
(* EAGAIN.                                                                  *)
C13_QueueComposition ==
    [][last'.op = "read" =>
          LET unread == Drop(Enqueued(last), Len(last.got))
              r == last'.ret
          IN  /\ panic' = "none"
              /\ IF unread # <<>>
                 THEN /\ r.tag = "ok"
                      /\ r.data # <<>>
                      /\ Len(r.data) <= last'.len
                      /\ IsPrefix(r.data, unread)
                 ELSE IF last.stage = 3 THEN r = Ok(<<>>) ELSE r = Err("EAGAIN")
              /\ IsPrefix(last'.got, last.a \o last.b)]_vars

(* Both blobs hold bytes, the queue is terminated, all of A ++ B has been  *)
(* read, in more reads than there are blobs, and the last read returned    *)
(* Ok(0).                                                                   *)
C13_Witness ==
    /\ last.op = "read"
    /\ last.stage = 3
    /\ last.ret = Ok(<<>>)
    /\ Len(last.a) = MaxBlobLen
    /\ Len(last.b) = MaxBlobLen
    /\ last.a # last.b
    /\ last.got = last.a \o last.b

(* A read of a queue that holds nothing and is not terminated has returned *)
(* EAGAIN                                                                   *)
QueueEmptyNotTerminated ==
    /\ last.op = "read"
    /\ last.stage = 2
    /\ last.ret = Err("EAGAIN")
    /\ last.got = last.a \o last.b
    /\ last.got # <<>>

-----------------------------------------------------------------------------
(* Properties of the sub stream *)

(* The blob under the sub stream of SpecSub *)
SubBlob == CHOOSE s \in DOMAIN streams : streams[s].kind = "blob"

(* C14: with a wrappee of at least end bytes, begin <= end and exhaust =   *)
(* false, the reads of sub(w, begin, end) return the bytes w[begin..end)   *)
(* in order, at least one and at most the buffer's size per read, and      *)
(* Ok(0) once they are all read (a nice wrappee may answer EAGAIN in       *)
(* between, which returns no byte); the sub stream never takes the wrappee *)
(* beyond offset end, has taken exactly end bytes when it returns Ok(0),   *)
(* and the direct reads of the wrappee made after that return the bytes of *)
(* the wrappee from offset end on.                                          *)
C14_SubReadsItsRange ==
    [][LET in == last.in
           range == SubSeq(in.blob, in.begin + 1, in.end)
           unread == Drop(range, Len(last.got))
           rest == Drop(in.blob, in.end + Len(last.direct))
           r == last'.ret
           again == in.nice /\ r = Err("EAGAIN")
       IN  /\ panic' = "none"
           /\ last'.op = "read" =>
                 /\ IF unread # <<>>
                    THEN again \/ /\ r.tag = "ok"
                                  /\ r.data # <<>>
                                  /\ Len(r.data) <= last'.len
                                  /\ IsPrefix(r.data, unread)
                    ELSE r = Ok(<<>>) \/ (again /\ ~last.done)
                 /\ streams'[SubBlob].cursor <= in.end
                 /\ r = Ok(<<>>) => streams'[SubBlob].cursor = in.end
           /\ last'.op = "read_wrappee" =>
                 \/ again
                 \/ /\ r.tag = "ok"
                    /\ Len(r.data) <= last'.len
                    /\ IsPrefix(r.data, rest)
                    /\ r.data = <<>> <=> rest = <<>>]_vars

(* The sub stream has skipped bytes, returned its range in more than one   *)
(* read, then Ok(0), and a direct read of the wrappee has returned the     *)
(* bytes that follow offset end.                                            *)
C14_Witness ==
    /\ last.op = "read_wrappee"
    /\ last.in.begin > 0
    /\ last.in.end = last.in.begin + 1
    /\ last.in.end < Len(last.in.blob)
    /\ last.in.blob = <<TERMINATOR, ESCAPE, 2>>
    /\ last.got = SubSeq(last.in.blob, last.in.begin + 1, last.in.end)
    /\ last.direct = Drop(last.in.blob, last.in.end)
    /\ last.done

(* The range has been returned in two reads *)
SubRangeInTwoReads ==
    /\ last.op = "read"
    /\ last.in.begin = 0
    /\ last.in.end = MaxSubLen
    /\ last.len = 1
    /\ last.got = last.in.blob
    /\ last.done

-----------------------------------------------------------------------------
(* Properties of the naive encoder and decoder *)

(* The part of C15 that the code keeps: the reads of the decoder return    *)
(* the bytes of B in order, at least one and at most the buffer's size per *)
(* read, and Ok(0) once all are read.                                       *)
DecoderReturnsB ==
    [][last'.op = "read" =>
          LET unread == Drop(last.in.blob, Len(last.got))
              r == last'.ret
          IN  /\ panic' = "none"
              /\ IF unread # <<>>
                 THEN /\ r.tag = "ok"
                      /\ r.data # <<>>
                      /\ Len(r.data) <= last'.len
                      /\ IsPrefix(r.data, unread)
                 ELSE r = Ok(<<>>)]_vars

(* C15: for every B (without terminator when no escape is configured) and  *)
(* every choice of buffer sizes, the reads of decoder(encoder(blob(B)))    *)
(* return exactly B and then Ok(0), and the decoder's remainder then       *)
(* returns no byte: every read of it is Ok(0).                              *)
C15_DecodeEncodeRoundTrip ==
    [][/\ last'.op = "read" =>
             LET unread == Drop(last.in.blob, Len(last.got))
                 r == last'.ret
             IN  /\ panic' = "none"
                 /\ IF unread # <<>>
                    THEN /\ r.tag = "ok"
                         /\ r.data # <<>>
                         /\ Len(r.data) <= last'.len
                         /\ IsPrefix(r.data, unread)
                    ELSE r = Ok(<<>>)
       /\ last'.op = "read_remainder" => last'.ret = Ok(<<>>)]_vars

-----------------------------------------------------------------------------
(* Properties of the pacer *)

(* The bytes the pacer has returned in the window [t0, t1] *)
RECURSIVE Delivered(_, _, _)
Delivered(sent, t0, t1) ==
    IF t0 > t1 THEN 0 ELSE sent[t0] + Delivered(sent, t0 + 1, t1)

(* C16: in every window [t0, t1] the pacer has returned at most            *)
(* max_burst + byterate * (t1 - t0) bytes, whatever the reads; its quota   *)
(* is within [0, max_burst] after every read.                               *)
C16_PacerConservation ==
    /\ \A t0, t1 \in Times :
          t0 <= t1 =>
             Delivered(last.sent, t0, t1) <=
                last.in.max_burst + last.in.byterate * (t1 - t0)
    /\ streams[last.arg].quota >= 0
    /\ streams[last.arg].quota <= last.in.max_burst
    /\ panic = "none"

(* The pacer has returned as much as the bound allows in a window of more  *)
(* than one instant, after a read it had answered with EAGAIN.              *)
C16_Witness ==
    /\ last.op = "read"
    /\ last.in.max_burst > last.in.min_burst
    /\ disk.timers # {}
    /\ \E t0, t1 \in Times :
          /\ t0 < t1
          /\ Delivered(last.sent, t0, t1) =
                last.in.max_burst + last.in.byterate * (t1 - t0)

-----------------------------------------------------------------------------
(* Properties of protected_loop and of quit *)

(* The loop thread is running an iteration of do_loop, or has left it *)
PastTheWait == loop.pc \in {"take", "done", "returned"}

(* C17: under protected_loop a wake_up() of another thread is never lost:  *)
(* whenever it is issued (before the drain, between the drain and the      *)
(* wait, or during the wait) the loop thread gets out of its blocking      *)
(* calls and goes on with the next iteration; and the wake-up invokes no   *)
(* action.                                                                  *)
C17_WakeUpNeverLost ==
    /\ [][last'.op = "other_wake_up" => fired' = fired /\ loop' = loop]_vars
    /\ (last.op = "other_wake_up") ~> PastTheWait

(* The parts of C18 that are about main_loop: once quit() has been called  *)
(* the loop does not enter the poller, runs at most the rest of the batch  *)
(* of MAX_IO_STARVATION actions, and returns Ok.                            *)
MainLoopQuitTerminates ==
    /\ [][disk.quit /\ loop.pc # "wait" => loop'.pc # "wait"]_vars
    /\ [](loop.ran <= MAX_IO_STARVATION)
    /\ (disk.quit /\ InLoop /\ ~disk.wakeup_fd) ~> (loop.pc = "returned")

(* C18: after quit() (from an action under main_loop, or from another      *)
(* thread under protected_loop) the loop terminates: it does not enter the *)
(* poller again, runs at most the rest of the batch of MAX_IO_STARVATION   *)
(* actions, returns Ok, and protected_loop has unset wakeup_fd when it     *)
(* returns.                                                                 *)
C18_QuitTerminates ==
    /\ [][disk.quit /\ loop.pc # "wait" => loop'.pc # "wait"]_vars
    /\ [](loop.ran <= MAX_IO_STARVATION)
    /\ [](loop.pc = "returned" => ~disk.wakeup_fd)
    /\ (disk.quit /\ InLoop) ~> (loop.pc = "returned")

-----------------------------------------------------------------------------
(* Properties of the Linger *)

TheLinger == streams[last.linger]

(* The bytes read from the source and not yet written *)
Unwritten == SubSeq(TheLinger.buf, TheLinger.cursor + 1, TheLinger.length)

(* C19: whatever the source's bytes and the answers of the descriptor      *)
(* (partial writes, EAGAIN) and of the source (EAGAIN), the bytes written  *)
(* followed by the bytes still in the buffer are the first bytes of the    *)
(* source, in order; and the Linger is Final(Ok) only when the source has  *)
(* ended and all of its bytes have been written.                            *)
C19_LingerCopiesSource ==
    /\ IsPrefix(TheLinger.dest.written \o Unwritten, Enqueued(last))
    /\ TheLinger.state = Final(Ok(<<>>)) =>
          /\ last.stage = 3
          /\ TheLinger.dest.written = Enqueued(last)
          /\ Unwritten = <<>>

C19_Witness ==
    /\ TheLinger.state = Final(Ok(<<>>))
    /\ Len(TheLinger.dest.written) > MaxLingerBuf
    /\ last.again

(* Where a run of jockey leaves a Linger that is not finished: the         *)
(* descriptor has returned EAGAIN, or the source has and everything        *)
(* enqueued so far is written                                               *)
Waiting ==
    \/ TheLinger.dest.script = <<>> /\ TheLinger.cursor < TheLinger.length
    \/ /\ TheLinger.cursor = TheLinger.length
       /\ TheLinger.dest.written = Enqueued(last)
       /\ last.stage < 3

JockeyRan == last.op = "poll" /\ last.ran \in {"jockey", "queue_notifier"}

(* A Busy Linger drains: after each run of jockey it is waiting or Final *)
BusyLingerDrains ==
    JockeyRan /\ last.drifted = "no" =>
        \/ TheLinger.state = Busy /\ Waiting
        \/ TheLinger.state.tag = "Final"

(* C20: after drift() on a Busy Linger the Linger keeps draining (after    *)
(* each run of jockey it is waiting for the descriptor or the source, or   *)
(* it is done), the terminal result is discarded (no callback is           *)
(* scheduled) and the Linger is Stale then, without registration and       *)
(* self-reference; drift() on a Final Linger makes it Stale at once.       *)
C20_DriftKeepsDraining ==
    /\ JockeyRan /\ last.drifted = "Busy" =>
          \/ TheLinger.state = Drifting /\ Waiting
          \/ /\ TheLinger.state = StaleState
             /\ TheLinger.registration = None
             /\ ~TheLinger.self_ref
    /\ last.drifted = "Busy" =>
          \A i \in DOMAIN disk.immediate : disk.immediate[i].action.val.tag # "callback"
    /\ last.drifted = "Final" =>
          /\ TheLinger.state = StaleState
          /\ TheLinger.registration = None
          /\ ~TheLinger.self_ref

(* C21: abort() leaves the Linger Stale, without registration and          *)
(* self-reference, whatever its state was, and returns that state; from    *)
(* then on the Linger stays so, no byte is written to the descriptor, a    *)
(* poll changes no stream (the source is not read), and the callback is    *)
(* not scheduled.                                                           *)
C21_AbortIsFinal ==
    /\ [](last.aborted # None =>
            /\ TheLinger.state = StaleState
            /\ TheLinger.registration = None
            /\ ~TheLinger.self_ref
            /\ last.aborted.val.ret = last.aborted.val.before)
    /\ [][last.aborted # None =>
            /\ streams'[last.linger].dest.written = TheLinger.dest.written
            /\ last'.op = "poll" => streams' = streams
            /\ \A cb \in {StreamCallback(last.linger, 0)} :
                   Queued(disk', cb) <= Queued(disk, cb)]_vars

C21_Witness ==
    /\ last.aborted # None
    /\ last.aborted.val.before = Busy
    /\ JockeyRan
    /\ TheLinger.dest.script # <<>>
    /\ TheLinger.cursor < TheLinger.length

(* abort() has met a Linger in each of its states *)
AbortedDrifting == last.aborted # None /\ last.aborted.val.before = Drifting
AbortedFinal == last.aborted # None /\ last.aborted.val.before.tag = "Final"
AbortedStale == last.aborted # None /\ last.aborted.val.before = StaleState

-----------------------------------------------------------------------------
(* Properties of errors *)

(* The error of the socket has been returned by the file stream *)
Raised == streams[last.file].fd.err = "none"

(* A stream keeps the error for its next read *)
Latched ==
    \E s \in DOMAIN streams :
       /\ "pending_error" \in DOMAIN streams[s]
       /\ streams[s].pending_error = Some("ECONNRESET")

(* A stream keeps nothing from the caller: the error has been returned by  *)
(* a read of the wrapper, or a stream holds it for the next read           *)
ErrorPassedOn == Raised => last.seen \/ Latched

(* C22: a wrapper does not discard a non-EAGAIN error of its wrappee: a    *)
(* caller that reads the wrapper to the end of the stream after the        *)
(* wrappee has returned the error has been returned that error by some     *)
(* read; so for avid, when the error comes after bytes gathered in the     *)
(* same read.                                                               *)
C22_ErrorsNotSwallowed == Raised /\ last.ret = Ok(<<>>) => last.seen

(* The same for the wrappers other than avid *)
OtherWrappersPassErrors == last.kind # "avid" => ErrorPassedOn

-----------------------------------------------------------------------------
(* Properties of connection progresses *)

TheProgress == streams[last.progress.val]

(* What take() has returned is a stream pair on the socket *)
PairOnSocket(r) ==
    /\ r.tag = "ok"
    /\ r.data \in DOMAIN streams
    /\ streams[r.data].kind = "duplex"
    /\ streams[streams[r.data].ingress].fd.no = SocketFd
    /\ streams[r.data].registration = Some(SocketFd)

(* C23: take() of a connection in progress returns EAGAIN and changes      *)
(* nothing; the first take() in Triggered or Established leaves the state  *)
(* Done and returns the outcome (a stream pair on the socket, or the error *)
(* of the connect); take() in Done returns EBADF; the outcome is handed    *)
(* out at most once and Done is never left.                                 *)
C23_TakeOnce ==
    /\ [](last.op = "take" /\ Running =>
            CASE last.before = InProgress ->
                   /\ last.ret = Err("EAGAIN")
                   /\ ~last.changed
                   /\ TheProgress.state = InProgress
              [] last.before = Triggered ->
                   /\ TheProgress.state = Done
                   /\ IF last.so = "0" THEN PairOnSocket(last.ret)
                      ELSE last.ret = Err(last.so)
              [] last.before = Established ->
                   /\ TheProgress.state = Done
                   /\ PairOnSocket(last.ret)
              [] OTHER ->
                   /\ last.ret = Err("EBADF")
                   /\ ~last.changed)
    /\ [](last.handed <= 1)
    /\ [][last.progress # None /\ TheProgress.state = Done =>
            streams'[last.progress.val].state = Done]_vars

(* The outcome of a connection that has been in progress has been taken,   *)
(* and a later take() has returned EBADF                                    *)
C23_Witness ==
    /\ Running
    /\ last.progress # None
    /\ last.op = "take"
    /\ last.before = Done
    /\ last.handed = 1
    /\ TheProgress.registration = None
    /\ TheProgress.callback # Noop

TookRefused ==
    last.op = "take" /\ last.before = Triggered /\ last.ret = Err("ECONNREFUSED")

TookTriggeredPair ==
    last.op = "take" /\ last.before = Triggered /\ last.ret.tag = "ok"

TookEstablished == last.op = "take" /\ last.before = Established /\ Running

TookInProgress ==
    last.op = "take" /\ last.before = InProgress /\ TheProgress.so_error = "0"

-----------------------------------------------------------------------------
(* Properties of the Resolver *)

(* C24: in every interleaving of the worker and the reactor, poll() while  *)
(* the worker has not closed the pipe returns EAGAIN and does not join;    *)
(* the first poll() begun after the worker has closed the pipe returns the *)
(* worker's result; every later poll() returns EBADF; the result is        *)
(* delivered once.                                                          *)
C24_ResolvedOnce ==
    /\ last.op = "poll" /\ last.at \in {"Resolving", "Resolved"} =>
          /\ last.ret = Err("EAGAIN")
          /\ ~TheResolver.joining
          /\ TheResolver.jh # None
          /\ last.delivered = 0
    /\ last.op = "poll" /\ last.at \in {"Closed", "Exited"} =>
          IF last.after = 1 THEN TheResolver.joining /\ last.delivered = 0
          ELSE last.ret = Err("EBADF") /\ ~TheResolver.joining /\ last.delivered = 1
    /\ last.op = "joined" =>
          /\ last.after = 1
          /\ last.delivered = 1
          /\ last.ret = TheResolver.worker.result
          /\ last.ret \in ResolverResults
    /\ last.delivered <= 1
    /\ last.after >= 1 /\ ~TheResolver.joining => last.delivered = 1
    /\ Running

(* After polls that returned EAGAIN, a poll has returned the result, and   *)
(* the one after it EBADF                                                   *)
C24_Witness ==
    /\ last.op = "poll"
    /\ last.polls = MaxPolls
    /\ last.after = 2
    /\ last.ret = Err("EBADF")
    /\ TheResolver.worker.result = Ok(<<2>>)

(* poll() has read the end of the pipe of a worker that has not ended *)
JoiningBeforeExit == TheResolver.joining /\ TheResolver.worker.pc = "Closed"

-----------------------------------------------------------------------------
(* Properties of flush *)

(* No immediate action is pending and no timer is scheduled *)
ReactorIdle == disk.immediate = <<>> /\ disk.timers = {}

(* flush has returned Ok only with the reactor idle, and ETIME exactly      *)
(* when it has met the deadline at the top of its loop                      *)
FlushOkOnlyIdle ==
    last.op = "flush" /\ Running =>
       /\ last.ret = Ok(<<>>) => ReactorIdle
       /\ last.ret = Err("ETIME") <=> now >= last.arg

(* C25: flush(deadline) returns Ok only with the reactor idle; when the    *)
(* reactor is not idle at the return of flush, flush has returned ETIME;   *)
(* no other error is returned, as no poll fails here.                       *)
C25_FlushIdleOrTimeExceeded ==
    last.op = "flush" /\ Running =>
       /\ last.ret = Ok(<<>>) => ReactorIdle
       /\ ~ReactorIdle => last.ret = Err("ETIME")
       /\ last.ret \in {Ok(<<>>), Err("ETIME")}

-----------------------------------------------------------------------------
(* Properties of a trigger after a cancel *)

(* C26: trigger(); cancel(); trigger() of an Idle Event before its delivery *)
(* runs: the program is still running, the Event is Triggered, the queue    *)
(* holds the one delivery of the first trigger(), and that delivery invokes *)
(* the action once and leaves the Event Idle; a delivery that finds the     *)
(* Event Canceled does not invoke the action.                               *)
C26_RetriggerRearms ==
    \A e \in DOMAIN events :
       events[e].state = "Idle" /\ disk.immediate = <<>> /\ disk.timers = {} =>
          LET w1 == trigger(World, e)
              w2 == cancel_event(w1, e)
              w3 == trigger(w2, e)
              w4 == poll(w3, NoFd)
              w5 == poll(w2, NoFd)
          IN  /\ w3.panic = "none"
              /\ w3.events[e].state = "Triggered"
              /\ Cardinality(Deliveries(w3.disk, e)) = 1
              /\ w3.disk.immediate = w1.disk.immediate
              /\ w4.panic = "none"
              /\ w4.events[e].state = "Idle"
              /\ w4.events[e].invoked = events[e].invoked + 1
              /\ w4.disk.immediate = <<>>
              /\ w5.events[e].invoked = events[e].invoked

-----------------------------------------------------------------------------
(* Properties of poll and ready descriptors *)

(* poll() returns None only with no action pending and no timer scheduled *)
NoneOnlyWithoutTimers ==
    Running /\ poll(World, NoFd).ret = None =>
       disk.immediate = <<>> /\ disk.timers = {}

(* C27: when no timer is ready to run, also when none is scheduled, poll() *)
(* with a registered fd ready hands that fd to its Event, as try_io does,  *)
(* and does not return None; and poll() returns None only with the reactor *)
(* idle.                                                                    *)
C27_PollServesReadyFd ==
    /\ NoneOnlyWithoutTimers
    /\ \A fd \in DOMAIN disk.registrations :
          LET p == pop_timer(World)
              w == poll(World, fd)
              d == dispatch(p.w, fd)
          IN  Running /\ p.popped \in {"NextTimerExpiry", "InfiniteWait"} =>
                 /\ w.ret # None
                 /\ w.events = d.events
                 /\ w.disk = d.disk
                 /\ w.panic = d.panic

(* The same when a timer is scheduled and not ready *)
PollServesReadyFdBeforeExpiry ==
    \A fd \in DOMAIN disk.registrations :
       LET p == pop_timer(World)
           w == poll(World, fd)
           d == dispatch(p.w, fd)
       IN  Running /\ p.popped = "NextTimerExpiry" =>
              /\ w.ret # None
              /\ w.events = d.events
              /\ w.disk = d.disk
              /\ w.panic = d.panic

-----------------------------------------------------------------------------
(* Properties of the RefCell borrows *)

(* C28: no operation of the reactor or of an Event asks for a body mutably *)
(* while a borrow of that body is alive: no BorrowMutError panic.           *)
C28_NoBorrowConflict == panic # "BorrowMutError"

-----------------------------------------------------------------------------
(* Properties of the pending error of the queue stream *)

TheQueue == streams[last.arg]

(* The latest read is the one in which the socket returned its error *)
RaisedNow == last.fd.err = "ECONNRESET" /\ streams[last.file].fd.err = "none"

(* C29: a read of the queue in which the head returns ECONNRESET after k   *)
(* bytes returns the k bytes and latches the error if k > 0, and returns   *)
(* the error if k = 0; a read that meets a latched error returns it, takes *)
(* it off and reads nothing; the error is returned once; EAGAIN is never   *)
(* latched.                                                                 *)
C29_QueueLatchesError ==
    /\ last.op = "read" /\ last.before # None =>
          /\ last.ret = Err(last.before.val)
          /\ TheQueue.pending_error = None
          /\ streams[last.file].fd = last.fd
          /\ streams[last.blob].cursor = last.cursor
    /\ last.op = "read" /\ last.before = None /\ RaisedNow =>
          IF last.fd.data # <<>>
          THEN /\ last.ret = Ok(Take(last.fd.data, Len(last.ret.data)))
               /\ TheQueue.pending_error = Some("ECONNRESET")
               /\ last.errors = 0
          ELSE /\ last.ret = Err("ECONNRESET")
               /\ TheQueue.pending_error = None
    /\ TheQueue.pending_error \in {None, Some("ECONNRESET")}
    /\ TheQueue.pending_error # None => streams[last.file].fd.err = "none" /\ last.errors = 0
    /\ last.errors <= 1
    /\ last.op = "read" /\ last.ret = Ok(<<>>) => last.errors = 1
    /\ last.errors = 0 => streams[last.blob].cursor = 0
    /\ last.op = "read" /\ last.fd.err = "none" /\ ~last.fd.eof =>
          /\ TheQueue.pending_error = None
          /\ IF last.fd.data # <<>> THEN last.ret.tag = "ok"
             ELSE last.ret = Err("EAGAIN")

(* The bytes, then the latched error, then the data of the next stream     *)
(* have been returned by three reads                                        *)
C29_Witness ==
    /\ last.op = "read"
    /\ last.errors = 1
    /\ last.ret = Ok(<<2>>)
    /\ last.cursor = 0
    /\ last.got = <<0, 2>>
    /\ TheQueue.pending_error = None

(* A read has returned bytes and latched the error *)
LatchedAfterBytes ==
    last.op = "read" /\ last.ret.tag = "ok" /\ TheQueue.pending_error # None

(* EAGAIN has ended a read that had copied bytes *)
AgainAfterBytes ==
    /\ last.op = "read"
    /\ last.fd.err = "none"
    /\ Len(last.fd.data) = 1
    /\ last.ret = Ok(last.fd.data)
    /\ TheQueue.notification_expected = FALSE

-----------------------------------------------------------------------------
(* Properties of the decoder over a wrappee that returns pieces *)

(* The bytes of b before its first unescaped terminator, escapes removed *)
RECURSIVE Plain(_, _)
Plain(b, escape) ==
    IF b = <<>> THEN <<>>
    ELSE IF b[1] = TERMINATOR THEN <<>>
    ELSE IF escape # None /\ b[1] = escape.val
    THEN IF Len(b) >= 2 THEN <<b[2]>> \o Plain(Drop(b, 2), escape) ELSE <<>>
    ELSE <<b[1]>> \o Plain(Tail(b), escape)

(* The bytes of b after its first unescaped terminator, if it has one *)
RECURSIVE After(_, _)
After(b, escape) ==
    IF b = <<>> THEN None
    ELSE IF b[1] = TERMINATOR THEN Some(Tail(b))
    ELSE IF escape # None /\ b[1] = escape.val THEN After(Drop(b, 2), escape)
    ELSE After(Tail(b), escape)

(* The decoder returns bytes of Plain only, and all of them before Ok(0) *)
DecoderOutputIsPlain ==
    /\ IsPrefix(last.got, Plain(last.in.blob, last.in.escape))
    /\ last.done =>
          /\ last.got = Plain(last.in.blob, last.in.escape)
          /\ After(last.in.blob, last.in.escape) # None

(* C30: whatever the sizes of the buffers and of the pieces the wrappee    *)
(* returns, the decoder returns the bytes before the first unescaped       *)
(* terminator with the escapes removed, a read of the decoder in state     *)
(* Terminated reads nothing, and the remainder returns the bytes of the    *)
(* wrappee after the terminator and no other byte.                          *)
C30_DecodeAnyChunking ==
    /\ []DecoderOutputIsPlain
    /\ [](last.rest # <<>> =>
            IsPrefix(last.rest, After(last.in.blob, last.in.escape).val))
    /\ [](last.op = "read_remainder" /\ last.ret = Ok(<<>>) =>
            last.rest = After(last.in.blob, last.in.escape).val)
    /\ [][streams[last.arg].state = "Terminated" /\ last'.op = "read" =>
            streams' = streams]_vars

-----------------------------------------------------------------------------

-----------------------------------------------------------------------------
(* The callback of the Linger *)

LingerCallback == StreamCallback(last.linger, 0)

(* The step takes the Linger into Final *)
EntersFinal ==
    TheLinger.state.tag # "Final" /\ streams'[last.linger].state.tag = "Final"

(* C31: the step that takes the Linger into Final (Ok or Err) queues one   *)
(* invocation of the registered callback, and no other step queues one;    *)
(* Final is entered from Busy only, and Busy is never entered again, so    *)
(* the callback is scheduled once, and never after drift() or abort() has  *)
(* met a Busy Linger.                                                       *)
C31_CallbackOnceOnFinal ==
    /\ [][/\ EntersFinal /\ TheLinger.callback = Some(LingerCallback) =>
                Queued(disk', LingerCallback) = Queued(disk, LingerCallback) + 1
          /\ ~EntersFinal =>
                Queued(disk', LingerCallback) <= Queued(disk, LingerCallback)
          /\ EntersFinal => TheLinger.state = Busy
          /\ TheLinger.state # Busy => streams'[last.linger].state # Busy]_vars
    /\ [](Queued(disk, LingerCallback) <= 1)
    /\ [](\/ last.drifted = "Busy"
          \/ last.aborted # None /\ last.aborted.val.before = Busy
          => Queued(disk, LingerCallback) = 0)

C31_Witness ==
    /\ TheLinger.state.tag = "Final"
    /\ TheLinger.state.result = Err("EIO")
    /\ Queued(disk, LingerCallback) = 1
    /\ JockeyRan

(* The callback is queued on Final(Ok) too, and it has run before a later  *)
(* drift() or abort()                                                       *)
CallbackOnFinalOk ==
    TheLinger.state = Final(Ok(<<>>)) /\ Queued(disk, LingerCallback) = 1

CallbackRanThenAborted ==
    /\ last.aborted # None
    /\ last.aborted.val.before.tag = "Final"
    /\ TheLinger.callback # None
    /\ Queued(disk, LingerCallback) = 0

-----------------------------------------------------------------------------
(* The bytes of the blobs in queue q that have not been read *)
RECURSIVE Unread(_, _)
Unread(ss, q) ==
    IF q = <<>> THEN <<>>
    ELSE Drop(ss[Head(q)].blob, ss[Head(q)].cursor) \o Unread(ss, Tail(q))

(* The bytes the Linger has written and those it holds, then those its     *)
(* source holds                                                             *)
InTransit(ss) ==
    ss[last.linger].dest.written
        \o SubSeq(ss[last.linger].buf, ss[last.linger].cursor + 1,
                  ss[last.linger].length)
        \o Unread(ss, ss[last.arg].queue)

(* C32: the cursor and the length of a Linger stay within the buffer,      *)
(* 0 <= cursor <= length <= buffer size, so the Linger holds no more than  *)
(* one buffer of unwritten bytes and no write is handed more than the      *)
(* buffer (the slice cursor..length); and the Linger reads its source only *)
(* once cursor = length: a poll that reads a stream has first written      *)
(* every byte that was unwritten, and no read replaces a byte of the       *)
(* buffer that is not written (a poll moves bytes from the source to the   *)
(* buffer and from the buffer to the descriptor, and drops none).          *)
C32_LingerBufferBounds ==
    /\ [](/\ 0 <= TheLinger.cursor
          /\ TheLinger.cursor <= TheLinger.length
          /\ TheLinger.length <= Len(TheLinger.buf)
          /\ Len(TheLinger.buf) = MaxLingerBuf
          /\ Len(Unwritten) <= MaxLingerBuf)
    /\ [][last'.op = "poll" =>
             /\ last'.reads =>
                   IsPrefix(TheLinger.dest.written \o Unwritten,
                            streams'[last.linger].dest.written)
             /\ InTransit(streams') = InTransit(streams)]_vars

(* A poll that reads the source after the descriptor had refused a part of *)
(* a full buffer                                                            *)
C32_Witness ==
    /\ last.op = "poll"
    /\ last.reads
    /\ last.again
    /\ TheLinger.length = MaxLingerBuf
    /\ TheLinger.cursor < TheLinger.length
    /\ TheLinger.dest.script = <<>>
    /\ Len(TheLinger.dest.written) > MaxLingerBuf

(* The descriptor refuses a full buffer *)
FullBufferRefused ==
    /\ TheLinger.state = Busy
    /\ Len(Unwritten) = MaxLingerBuf
    /\ TheLinger.dest.script = <<>>
    /\ JockeyRan

-----------------------------------------------------------------------------
(* Properties of the switch stream *)

(* The egress stream set last *)
TheEgress == last.egress[Len(last.egress)]

(* The bytes of the egress streams set so far that have been read *)
RECURSIVE Drained(_, _)
Drained(ss, es) ==
    IF es = <<>> THEN <<>>
    ELSE Take(ss[Head(es)].blob, ss[Head(es)].cursor) \o Drained(ss, Tail(es))

(* C33: after switch(s), as called by set_egress(s), a read of the switch  *)
(* stream is a read of s (the same result and the same effects); the step  *)
(* queues the notification of the switch stream, the poll that runs it     *)
(* queues the callback of the switch stream, which is the jockey of the    *)
(* Linger, and with no other event than the polls of the loop a Busy       *)
(* Linger that holds no unwritten byte (it waits for its source) reads s,  *)
(* unless another stream is set first: all it holds and writes are the     *)
(* bytes read from the egress streams.                                      *)
C33_SwitchRewires ==
    /\ [](last.egress # <<>> =>
            /\ streams[last.arg].wrappee = TheEgress
            /\ \A len \in 0..MaxRead :
                  /\ read(World, last.arg, len).ret = read(World, TheEgress, len).ret
                  /\ read(World, last.arg, len).streams
                        = read(World, TheEgress, len).streams
            /\ TheLinger.dest.written \o Unwritten = Drained(streams, last.egress))
    /\ [][/\ last'.op = "set_egress" =>
                /\ Queued(disk', Notify(last.arg)) = Queued(disk, Notify(last.arg)) + 1
                /\ streams'[last.arg].callback = Jockey(last.linger)
          /\ /\ last'.op = "poll"
             /\ disk.immediate # <<>>
             /\ Head(disk.immediate).action = Some(Notify(last.arg))
             => Queued(disk', Jockey(last.linger))
                    = Queued(disk, Jockey(last.linger)) + 1]_vars
    /\ \A n \in 1..MaxEgress :
          /\ Len(last.egress) = n
          /\ last.op = "set_egress"
          /\ TheLinger.state = Busy
          /\ Unwritten = <<>>
          ~>  \/ Len(last.egress) > n
              \/ /\ Len(last.egress) = n
                 /\ streams[last.egress[n]].cursor > 0
                 /\ TheLinger.dest.written \o Unwritten # <<>>

(* The Linger, which had met EAGAIN from the dry stream, has run its       *)
(* jockey after set_egress(s) and has written bytes of s                    *)
C33_Witness ==
    /\ Len(last.egress) = 1
    /\ last.quiet
    /\ last.op = "poll"
    /\ last.ran = "jockey"
    /\ streams[TheEgress].cursor > 0
    /\ TheLinger.dest.written # <<>>
    /\ IsPrefix(TheLinger.dest.written, streams[TheEgress].blob)

(* set_egress while bytes of the previous egress stream are unwritten *)
SwitchedInMidBuffer ==
    /\ Len(last.egress) = 2
    /\ streams[last.egress[1]].cursor < Len(streams[last.egress[1]].blob)
    /\ streams[last.egress[2]].cursor > 0

-----------------------------------------------------------------------------
(* Properties of the action of a connection progress *)

(* The action the application has given to new() *)
ConnectAction == StreamCallback(1, 0)

(* The closure registered for the socket, once it is run, schedules the    *)
(* action in InProgress only, where it drops the registration; no other    *)
(* step schedules the action, and new() has scheduled it when connect()    *)
(* has succeeded at once.                                                   *)
TriggerSchedulesOnce ==
    /\ [](Connecting /\ last.op = "new" =>
            Queued(disk, ConnectAction)
                = IF TheProgress.state = Established THEN 1 ELSE 0)
    /\ [](Connecting /\ TheProgress.state # InProgress =>
            RunAction(World, ProgressTrigger(last.progress.val)).disk = disk)
    /\ [][Connecting =>
            IF last'.op = "trigger" /\ TheProgress.state = InProgress
            THEN /\ Queued(disk', ConnectAction) = Queued(disk, ConnectAction) + 1
                 /\ streams'[last.progress.val].state = Triggered
                 /\ streams'[last.progress.val].registration = None
                 /\ SocketFd \notin DOMAIN disk'.registrations
            ELSE Queued(disk', ConnectAction) <= Queued(disk, ConnectAction)]_vars

TriggeredInProgress ==
    /\ Connecting
    /\ last.op = "trigger"
    /\ TheProgress.state = Triggered
    /\ Queued(disk, ConnectAction) = 1

(* C34: the action of a connection progress is scheduled once: by new()    *)
(* when connect() has succeeded at once, and otherwise when the socket is  *)
(* reported ready while the progress is InProgress: the reactor hands the  *)
(* socket to its Event, the delivery runs the registered closure, which    *)
(* leaves the progress Triggered, drops the registration of the socket and *)
(* schedules the action; the closure schedules nothing in another state.   *)
C34_ActionScheduledOnce ==
    /\ Connecting /\ last.op = "new" =>
          Queued(disk, ConnectAction)
              = IF TheProgress.state = Established THEN 1 ELSE 0
    /\ Connecting /\ TheProgress.state # InProgress =>
          RunAction(World, ProgressTrigger(last.progress.val)).disk = disk
    /\ /\ Connecting
       /\ TheProgress.state = InProgress
       /\ TheProgress.so_error \notin {"EINPROGRESS", "EAGAIN"}
       /\ disk.immediate = <<>>
       => \A delivered \in {poll(dispatch(World, SocketFd), NoFd)} :
              /\ delivered.panic = "none"
              /\ delivered.streams[last.progress.val].state = Triggered
              /\ delivered.streams[last.progress.val].registration = None
              /\ SocketFd \notin DOMAIN delivered.disk.registrations
              /\ Queued(delivered.disk, ConnectAction) = 1

-----------------------------------------------------------------------------
(* Properties of the nice stream *)

TheNice == streams[last.arg]

(* The latest read has met a counter of max_burst or more *)
BurstSpent == last.op = "read" /\ last.len > 0 /\ last.cursor >= MaxBurst

(* C35: the counter of a nice stream is the number of bytes it has         *)
(* returned since its latest error (a back-off or an error of the wrappee, *)
(* which both reset it); a non-trivial read that meets a counter of        *)
(* max_burst or more returns EAGAIN, does not read the wrappee, leaves the *)
(* counter 0 and queues one retry, and no other read queues one; the poll  *)
(* that runs a retry calls the callback of the stream, and every retry     *)
(* queued is run eventually.                                                *)
C35_NiceBacksOff ==
    /\ [](TheNice.cursor = last.since)
    /\ [](BurstSpent =>
            /\ last.ret = Err("EAGAIN")
            /\ last.calls = 1
            /\ TheNice.cursor = 0)
    /\ [][last'.op = "read" =>
             /\ Queued(disk', NiceRetry(last.arg))
                   = Queued(disk, NiceRetry(last.arg))
                     + (IF last'.len > 0 /\ TheNice.cursor >= MaxBurst THEN 1 ELSE 0)
             /\ last'.len > 0 /\ TheNice.cursor >= MaxBurst =>
                   streams'[TheNice.wrappee] = streams[TheNice.wrappee]
             /\ last'.ret.tag = "err" => streams'[last.arg].cursor = 0]_vars
    /\ [][last'.op = "poll" /\ last'.ran = "nice_retry" =>
             last'.invoked = <<TheNice.callback>>]_vars
    /\ [](last.owed = Queued(disk, NiceRetry(last.arg)))
    /\ \A n \in 1..MaxOwed : last.owed = n ~> last.owed < n

(* The reader has been notified by the retry after a back-off *)
C35_Witness ==
    /\ last.op = "poll"
    /\ last.ran = "nice_retry"
    /\ last.invoked = <<StreamCallback(last.arg, 0)>>
    /\ last.owed = 0
    /\ TheNice.cursor = 0

(* An error of the wrappee has reset a counter that was not 0 *)
WrappeeErrorResets ==
    /\ last.op = "read"
    /\ last.cursor \in 1..(MaxBurst - 1)
    /\ last.calls > 1
    /\ last.ret = Err("EAGAIN")
    /\ TheNice.cursor = 0

(* A read has gone past max_burst before the back-off *)
BurstExceeded == last.op = "read" /\ last.len > 0 /\ last.cursor > MaxBurst

TwoRetriesOwed == last.owed = 2


-----------------------------------------------------------------------------
(* Failure semantics of the registration calls *)

UnregisterReturnedErr == last.op = "unregister" /\ last.ret.tag = "err"

UnregisterPanicked == last.op = "unregister" /\ panic # "none"

TableKept == disk.registrations = last.before

(* What the code does: a failed register, modify or poll returns the error *)
(* and leaves the table as it was; unregister of a descriptor that is not  *)
(* in the table panics; unregister of a registered descriptor the kernel   *)
(* refuses to remove returns the error with the entry gone from the table. *)
ErrorsReturned ==
    /\ last.op \in {"register", "modify", "poll"} /\ last.failed =>
          last.ret.tag = "err" /\ panic = "none" /\ TableKept
    /\ last.op \in {"register", "modify", "poll"} /\ last.ret.tag = "err" =>
          last.failed
    /\ last.op = "unregister" /\ last.arg \notin DOMAIN last.before =>
          panic # "none" /\ TableKept
    /\ last.op = "unregister" /\ last.arg \in DOMAIN last.before =>
          /\ panic = "none"
          /\ last.arg \notin DOMAIN disk.registrations
          /\ last.failed <=> last.ret.tag = "err"

(* C36: unregister(fd) never returns an error to its caller: when it fails, *)
(* because fd is not in the registration table or because the poller        *)
(* rejects the removal, it panics; a failed poll, register or modify        *)
(* returns an error value and leaves the registration table unchanged.      *)
C36_UnregisterFailureFatal ==
    /\ last.op = "unregister" =>
          /\ last.ret.tag # "err"
          /\ last.failed => panic # "none"
    /\ last.op \in {"register", "modify", "poll"} /\ last.failed =>
          last.ret.tag = "err" /\ panic = "none" /\ TableKept

RegisterRefused == last.op = "register" /\ last.failed

ModifyRefused == last.op = "modify" /\ last.failed /\ last.arg \in DOMAIN last.before

PollInterrupted == last.op = "poll" /\ last.failed


-----------------------------------------------------------------------------
(* Termination of the sub stream's read *)

NeverReturns == panic = "endless loop"

WrappeeAtEof == streams[SubBlob].cursor = Len(last.in.blob)

(* What the code does: a read of the sub stream fails to return only when  *)
(* the wrappee is at EOF, and then either before offset begin has been      *)
(* reached, or with exhaust = true once end has been reached; and in those  *)
(* cases it never returns.                                                  *)
ReturnsUnlessEof ==
    /\ NeverReturns =>
          /\ WrappeeAtEof
          /\ \/ streams[last.arg].cursor < last.in.begin
             \/ last.in.exhaust /\ streams[last.arg].cursor >= last.in.end
    /\ last.op = "read" /\ last.ret = Ok(<<>>) /\ ~NeverReturns =>
          /\ streams[last.arg].cursor >= last.in.begin
          /\ last.in.exhaust => streams[last.arg].cursor < last.in.end

(* C37: every read of a sub stream returns after finitely many reads of    *)
(* the wrappee: when the wrappee is at EOF before offset begin the read     *)
(* returns Ok(0), and with exhaust = true, once end has been reached and    *)
(* the wrappee is exhausted, the read returns Ok(0) (a nice wrappee may     *)
(* answer EAGAIN before it reports its EOF).                                *)
C37_SubReadReturns ==
    /\ ~NeverReturns
    /\ last.op = "read" /\ WrappeeAtEof
          /\ \/ streams[last.arg].cursor < last.in.begin
             \/ last.in.exhaust /\ streams[last.arg].cursor >= last.in.end
       => last.ret = Ok(<<>>) \/ (last.in.nice /\ last.ret = Err("EAGAIN"))

(* The wrappee has ended before offset begin and the read spins in the     *)
(* skipping loop                                                            *)
SkipNeverReturns ==
    /\ NeverReturns
    /\ ~last.in.exhaust
    /\ Len(last.in.blob) < last.in.begin
    /\ streams[last.arg].cursor = Len(last.in.blob)

(* The range has been returned, and the read that should report EOF spins  *)
(* in the exhausting loop                                                   *)
ExhaustNeverReturns ==
    /\ NeverReturns
    /\ last.in.exhaust
    /\ last.in.end < Len(last.in.blob)
    /\ last.got = SubSeq(last.in.blob, last.in.begin + 1, last.in.end)
    /\ last.got # <<>>

(* Without exhaust, a wrappee that ends inside the range gives Ok(0) *)
ShortRangeEnds ==
    /\ last.op = "read"
    /\ last.ret = Ok(<<>>)
    /\ last.in.begin < Len(last.in.blob)
    /\ Len(last.in.blob) < last.in.end
    /\ last.got = Drop(last.in.blob, last.in.begin)


-----------------------------------------------------------------------------
(* The timeout of the loop *)

Pending == disk.immediate # <<>>

(* The ticks from now to the nearest scheduled expiry, 0 when it has passed *)
Remaining ==
    IF First(disk.timers).expires > now THEN First(disk.timers).expires - now ELSE 0

(* The least number of whole milliseconds that cover d ticks, held to MsMax *)
WholeMs(d) ==
    LET ms == CHOOSE n \in 0..d : n * TicksPerMs >= d /\ (n = 0 \/ (n - 1) * TicksPerMs < d)
    IN  IF ms > MsMax THEN MsMax ELSE ms

BoundStopped == loop.countdown = 0

(* The original statement of C38: the loop never blocks while runnable     *)
(* work exists: the timeout is -1 only when no immediate action is pending  *)
(* and no timer is scheduled; it is 0 when the bound of 20 has stopped the  *)
(* drain with actions still pending; in every other case it is the time to  *)
(* the nearest scheduled expiry in whole milliseconds, rounded up and       *)
(* clamped.                                                                 *)
C38_TimeoutByCase ==
    [][last'.op = "wait" =>
          /\ last'.arg = -1 => ~Pending /\ disk.timers = {}
          /\ Pending => last'.arg = 0
          /\ ~(BoundStopped /\ Pending) =>
                last'.arg = IF disk.timers = {} THEN -1 ELSE WholeMs(Remaining)]_vars

(* C38: the loop never blocks while runnable work exists: the timeout is   *)
(* -1 only when no immediate action is pending and no timer is scheduled;   *)
(* it is 0 whenever the bound of 20 has stopped the drain, with or without  *)
(* actions still pending; otherwise it is the time to the nearest scheduled *)
(* expiry in whole milliseconds, rounded up and clamped to the range of the *)
(* timeout's type.                                                          *)
C38_TimeoutNeverBlocksWork ==
    [][last'.op = "wait" =>
          /\ last'.arg = -1 => ~Pending /\ disk.timers = {}
          /\ Pending => last'.arg = 0
          /\ BoundStopped => last'.arg = 0
          /\ ~BoundStopped =>
                last'.arg = IF disk.timers = {} THEN -1 ELSE WholeMs(Remaining)]_vars

(* The poller has returned one tick after the expiry it waited for: the    *)
(* time to the expiry was rounded up to a whole millisecond                 *)
C38_Witness ==
    /\ last.op = "wait"
    /\ last.arg = 1
    /\ loop.pc = "take"
    /\ disk.timers # {}
    /\ now = First(disk.timers).expires + 1

(* The loop is about to wait for less than the time to the expiry *)
TimeoutClamped ==
    /\ loop.pc = "wait"
    /\ loop.result.tag = "some"
    /\ ~BoundStopped
    /\ loop.result.val - now > MsMax * TicksPerMs

(* The bound has stopped the drain with nothing left to run and a timer in *)
(* the future                                                               *)
BoundStoppedIdle ==
    /\ loop.pc = "wait"
    /\ BoundStopped
    /\ ~Pending
    /\ disk.timers # {}
    /\ First(disk.timers).expires > now

BoundStoppedPending == loop.pc = "wait" /\ BoundStopped /\ Pending

BlockedIdle == loop.pc = "blocked" /\ last.arg = -1


-----------------------------------------------------------------------------
(* Timers and the clock *)

(* C39: the cached time is never in the future and every queued immediate  *)
(* action is stamped with a time that is not later than it; and no step     *)
(* invokes the action of a Scheduled timer whose expiry is later than the   *)
(* current time, whether the timer is chosen with the FIFO empty or ahead   *)
(* of the front immediate action by the comparison of the keys.             *)
C39_NoTimerBeforeExpiry ==
    /\ [](/\ disk.recent <= now
          /\ \A i \in DOMAIN disk.immediate : disk.immediate[i].expires <= disk.recent)
    /\ [][\A t \in disk.timers : t.uid \in Firing => t.expires <= now']_vars

(* A Scheduled timer has just run ahead of the front immediate action,     *)
(* which was queued first and is stamped with a later time; the timer had   *)
(* expired.                                                                 *)
C39_Witness ==
    /\ last.op = "poll"
    /\ last.body.kind = "Scheduled"
    /\ last.body.uid \in fired
    /\ disk.immediate # <<>>
    /\ last.body.expires < Head(disk.immediate).expires
    /\ last.body.uid > Head(disk.immediate).uid
    /\ last.body.expires < now

(* A Scheduled timer has run at the very time of its expiry, with the FIFO *)
(* empty                                                                    *)
FiredOnTime ==
    /\ last.op = "poll"
    /\ last.body.kind = "Scheduled"
    /\ last.body.uid \in fired
    /\ disk.immediate = <<>>
    /\ last.body.expires = now
    /\ now > 0


-----------------------------------------------------------------------------
(* Readiness of a descriptor while the loop is busy *)

RegisteredEvents == {disk.registrations[fd] : fd \in DOMAIN disk.registrations}

(* What holds of the busy loop: a drain runs MAX_IO_STARVATION actions at  *)
(* most, and the loop that the bound has stopped enters the poller with a   *)
(* timeout of 0, whatever is still queued.                                  *)
PollerReachedWithinBound ==
    /\ loop.ran <= MAX_IO_STARVATION
    /\ loop.pc = "wait" /\ loop.countdown = 0 =>
          /\ loop.result.tag = "some"
          /\ dur_ms(World, loop.result) = 0

(* C40: readiness of a descriptor is not starved by the actions: a drain   *)
(* runs 20 actions at most and then enters the poller without blocking,     *)
(* and when the poller has handed out ready descriptors the loop has        *)
(* triggered their Events: it goes on, an Event of a registered descriptor  *)
(* is Triggered, and the delivery that invokes its action is queued for the *)
(* next drain.                                                              *)
C40_FdNotStarved ==
    /\ PollerReachedWithinBound
    /\ last.op = "wait" /\ loop.dispatched > 0 =>
          /\ panic = "none"
          /\ \E e \in RegisteredEvents :
                /\ events[e].state = "Triggered"
                /\ Cardinality(Deliveries(disk, e)) = 1

(* The bound has stopped the drain with actions still queued and a         *)
(* descriptor registered                                                    *)
BusyLoopAtPoller ==
    /\ loop.pc = "wait"
    /\ loop.ran = MAX_IO_STARVATION
    /\ disk.immediate # <<>>
    /\ disk.registrations # <<>>

(* The busy loop has been handed the ready descriptor and has panicked in  *)
(* Event::trigger; the registered action has not run                        *)
BusyLoopPanicsOnReadyFd ==
    /\ last.op = "wait"
    /\ loop.dispatched > 0
    /\ panic = "BorrowMutError"
    /\ Cardinality(fired) >= MAX_IO_STARVATION
    /\ disk.immediate # <<>>
    /\ \A e \in RegisteredEvents : events[e].state = "Idle" /\ events[e].invoked = 0

====
